---------------------------- MODULE Spec2Model ----------------------------
(***************************************************************************)
(* Model of the arena-combat bot: the reflex layer (src/reflex/reflex.py), *)
(* the shared intent slot of GameState (src/game2.0/game.py) and the      *)
(* producer pipeline (src/AIsystem/ai_pipeline.py).                        *)
(*                                                                         *)
(* Numbers.  The source computes in binary floating point.  The model      *)
(* computes in fixed point, rounding every division and square root to    *)
(* the nearest representable value, in these units:                        *)
(*   lengths and positions   deci-pixels        (1 px   = 10)              *)
(*   projectile velocities   pixels per second  (integers)                 *)
(*   times                   milliseconds       (1 s    = 1000)            *)
(*   unit vectors, intents, weights, strengths   thousandths (1.0 = 1000)  *)
(*   returned velocity       milli-pixels per second                       *)
(* The epsilons of the source (1e-6, 1e-3) lie below one unit of every     *)
(* scale, so "below epsilon" is "equal to zero" here.                      *)
(***************************************************************************)
EXTENDS Integers, Sequences, FiniteSets, TLC

\* ------------------------------------------------------------------------
\* State
\* ------------------------------------------------------------------------
VARIABLES
    \* reflex layer, as the game loop calls it (game.py run_game)
    bot_reflex,            \* the BotState fed to the reflex layer
    player_bullet_infos,   \* the hostile projectiles of the tick
    map_walls,             \* the obstacles of the map
    bot_speed,             \* difficulty.bot_speed
    rv,                    \* (rvx, rvy, rshoot) and the locals of the last call
    memo,                  \* history: the inputs and the result of the first call,
                           \* and whether a call on other inputs followed it
    wall_dists,            \* the "walls" entry of shared_state._data
    \* GameState: the intent slot and its lock
    ai_lock,               \* _ai_lock: "free", "producer" or "game"
    ai_dx, ai_dy, ai_shoot,
    ai_src,                \* history: the write each field was last assigned by
    nwrites,               \* history: the set_ai_decision calls begun so far
    last_done,             \* history: the latest completed write, its record and
                           \* the tick of the request that made it
    \* game loop thread
    gpc,                   \* its place in the tick
    r,                     \* the fields get_ai_decision has loaded
    r_src,                 \* history: the writes those fields come from
    seen_done,             \* history: last_done when get_ai_decision took the lock
    seen_fresh,            \* history: no write had begun when it took the lock
    \* threading.Event and the producer thread (AIThread, run_pipeline)
    stop_event,
    async_stop,
    ppc,                   \* run_pipeline: "loop", "sleep", "gather", "done"
    tick,
    tasks,                 \* call_claude tasks: "none", "pending", "done"
    w,                     \* the set_ai_decision call of the running task
    \* GameState: the observations of the session
    observations,          \* self.observations
    nobs,                  \* history: the add_observation calls since the list
                           \* was last emptied; the n-th call adds the text n
    obs_ret,               \* the list get_observations last returned, what it
                           \* held when returned, and whether it is the same
                           \* object as self.observations
    \* memory.py: the memory file and the save_session call in progress
    memory_file,           \* the text of player_memory.txt, as a token sequence
    nsaved,                \* history: the entries appended so far
    save                   \* save_session: its place and its arguments

reflexVars ==
    <<bot_reflex, player_bullet_infos, map_walls, bot_speed, rv, memo, wall_dists>>

slotVars == <<ai_lock, ai_dx, ai_dy, ai_shoot, ai_src, nwrites, last_done>>

readVars == <<r, r_src, seen_done, seen_fresh>>

pipeVars == <<stop_event, async_stop, ppc, tick, tasks, w>>

obsVars == <<observations, nobs, obs_ret>>

memVars == <<memory_file, nsaved, save>>

sessionVars == <<obsVars, memVars>>

vars == <<reflexVars, slotVars, gpc, readVars, pipeVars, sessionVars>>

\* ------------------------------------------------------------------------
\* Fixed-point resolution
\* ------------------------------------------------------------------------
ONE == 10 * 100          \* 1.0 in thousandths; also milliseconds per second
DPX == 2 * 5             \* deci-pixels per pixel

\* ------------------------------------------------------------------------
\* Tuning constants of reflex.py (lines 22-32)
\* ------------------------------------------------------------------------
BOT_RADIUS == 16
BULLET_RADIUS == 5
COLLISION_MARGIN == BOT_RADIUS + BULLET_RADIUS + 8
\* 1.2 s
DANGER_TIME_WINDOW == 1200
WALL_BUFFER == 38
\* 1.8
WALL_REPULSE_STRENGTH == 1800
\* 3.5
DODGE_BASE_STRENGTH == 3500
\* 0.30
INTENT_BLEND == 300
ARENA_W == 800
ARENA_H == 600

\* ------------------------------------------------------------------------
\* Arithmetic
\* ------------------------------------------------------------------------
Abs(x) == IF x < 0 THEN -x ELSE x

Max(a, b) == IF a >= b THEN a ELSE b

Min(a, b) == IF a <= b THEN a ELSE b

\* a / b for b > 0, rounded to the nearest integer (ties away from zero).
RDiv(a, b) ==
    IF a >= 0 THEN (2 * a + b) \div (2 * b)
    ELSE -((2 * (-a) + b) \div (2 * b))

RECURSIVE SqrtSearch(_, _, _)
\* The largest s in lo..hi with s * s <= n.
SqrtSearch(n, lo, hi) ==
    IF lo >= hi THEN lo
    ELSE IF ((lo + hi + 1) \div 2) * ((lo + hi + 1) \div 2) <= n
         THEN SqrtSearch(n, (lo + hi + 1) \div 2, hi)
         ELSE SqrtSearch(n, lo, ((lo + hi + 1) \div 2) - 1)

\* s or s + 1, whichever is nearer to sqrt(n), for s the floor of sqrt(n).
SqrtRound(n, s) == IF n - s * s > s THEN s + 1 ELSE s

\* sqrt(n) rounded to the nearest integer, for 0 <= n < 2^31.
Sqrt(n) == SqrtRound(n, SqrtSearch(n, 0, 46340))

\* hypot of non-negative x and y: like the C library's it rescales large
\* arguments so that the squares do not overflow.
HypotAbs(x, y) ==
    IF x > 30000 \/ y > 30000
    THEN 8 * Sqrt(RDiv(x, 8) * RDiv(x, 8) + RDiv(y, 8) * RDiv(y, 8))
    ELSE Sqrt(x * x + y * y)

\* math.hypot
Hypot(a, b) == HypotAbs(Abs(a), Abs(b))

\* Vectors are pairs <<x, y>>.
Add(u, v) == <<u[1] + v[1], u[2] + v[2]>>

Neg(u) == <<-u[1], -u[2]>>

\* u scaled by k thousandths.
Scale(u, k) == <<RDiv(u[1] * k, ONE), RDiv(u[2] * k, ONE)>>

\* ------------------------------------------------------------------------
\* reflex.py: geometry
\* ------------------------------------------------------------------------
\* Unit with a fallback direction (1, 0) for a vector below epsilon.
Unit_fallback_east(dx, dy, mag) ==
    IF mag < 1 THEN <<ONE, 0>>
    ELSE <<RDiv(dx * ONE, mag), RDiv(dy * ONE, mag)>>

\* _normalize 71-73, given mag = hypot(dx, dy).
Unit(dx, dy, mag) ==
    IF mag < 1 THEN <<0, 0>>
    ELSE <<RDiv(dx * ONE, mag), RDiv(dy * ONE, mag)>>

\* _normalize: a unit vector in thousandths, or (0, 0) below epsilon.
_normalize(dx, dy) == Unit(dx, dy, Hypot(dx, dy))

\* Tca without the minus sign of line 115.
Tca_no_minus(rx, ry, bvx, bvy) ==
    RDiv((rx * bvx + ry * bvy) * (ONE \div DPX), bvx * bvx + bvy * bvy)

\* _closest_approach 115: the time of closest approach, in ms.
Tca(rx, ry, bvx, bvy) ==
    RDiv(-(rx * bvx + ry * bvy) * (ONE \div DPX), bvx * bvx + bvy * bvy)

\* _closest_approach 116-119, given tca.
MissAt(bx, by, bvx, bvy, tx, ty, tca) ==
    <<tca, Hypot(bx + RDiv(bvx * tca, ONE \div DPX) - tx,
                 by + RDiv(bvy * tca, ONE \div DPX) - ty)>>

\* _closest_approach: <<tca in ms, miss distance in deci-px>>.
_closest_approach(bx, by, bvx, bvy, tx, ty) ==
    IF bvx * bvx + bvy * bvy < 1 THEN <<0, Hypot(bx - tx, by - ty)>>
    ELSE MissAt(bx, by, bvx, bvy, tx, ty, Tca(bx - tx, by - ty, bvx, bvy))

\* _wall_repulsion 141 and 154: (1 - dist / WALL_BUFFER) * WALL_REPULSE_STRENGTH.
Strength(dist) ==
    RDiv((WALL_BUFFER * DPX - dist) * WALL_REPULSE_STRENGTH, WALL_BUFFER * DPX)

\* _wall_repulsion 134-143: the push of one arena edge at distance dist
\* (deci-px) along (push_dx, push_dy).
EdgePush(dist, push_dx, push_dy) ==
    IF dist < WALL_BUFFER * DPX
    THEN <<push_dx * Strength(dist), push_dy * Strength(dist)>>
    ELSE <<0, 0>>

\* _wall_repulsion 152-157, given the vector (ex, ey) from the closest point of
\* the wall to the bot and its length dist.
PushAtDist(ex, ey, dist) ==
    IF dist < WALL_BUFFER * DPX /\ dist > 0
    THEN Scale(_normalize(ex, ey), Strength(dist))
    ELSE <<0, 0>>

\* _wall_repulsion 147-157: the push of one internal wall on a bot at
\* (bot_x, bot_y).
WallPush(bot_x, bot_y, wall) ==
    PushAtDist(bot_x - Max(wall.x, Min(wall.x + wall.w, bot_x)),
               bot_y - Max(wall.y, Min(wall.y + wall.h, bot_y)),
               Hypot(bot_x - Max(wall.x, Min(wall.x + wall.w, bot_x)),
                     bot_y - Max(wall.y, Min(wall.y + wall.h, bot_y))))

RECURSIVE WallPushSum(_, _, _, _)
\* _wall_repulsion 146-157: the sum of the pushes of walls[i..Len(walls)].
WallPushSum(bot_x, bot_y, walls, i) ==
    IF i > Len(walls) THEN <<0, 0>>
    ELSE Add(WallPush(bot_x, bot_y, walls[i]), WallPushSum(bot_x, bot_y, walls, i + 1))

\* _wall_repulsion: the soft repulsion vector, in thousandths.
_wall_repulsion(bot_x, bot_y, walls, arena_w, arena_h) ==
    Add(Add(EdgePush(bot_x, 1, 0), EdgePush(arena_w * DPX - bot_x, -1, 0)),
        Add(Add(EdgePush(bot_y, 0, 1), EdgePush(arena_h * DPX - bot_y, 0, -1)),
            WallPushSum(bot_x, bot_y, walls, 1)))

\* WallStep with the overlap test made strict: an obstacle whose extent ends
\* at the bot's coordinate is left out.
WallStep_strict(d, bt, wall) ==
    <<IF wall.y + wall.h <= bt.y /\ wall.x < bt.x /\ bt.x < wall.x + wall.w
      THEN Min(d[1], bt.y - (wall.y + wall.h)) ELSE d[1],
      IF wall.x >= bt.x /\ wall.y < bt.y /\ bt.y < wall.y + wall.h
      THEN Min(d[2], wall.x - bt.x) ELSE d[2],
      IF wall.y >= bt.y /\ wall.x < bt.x /\ bt.x < wall.x + wall.w
      THEN Min(d[3], wall.y - bt.y) ELSE d[3],
      IF wall.x + wall.w <= bt.x /\ wall.y < bt.y /\ bt.y < wall.y + wall.h
      THEN Min(d[4], bt.x - (wall.x + wall.w)) ELSE d[4]>>

\* compute_wall_distances 83-92: one pass of the loop; d is
\* <<dist_n, dist_e, dist_s, dist_w>> in deci-px.
WallStep(d, bt, wall) ==
    <<IF wall.y + wall.h <= bt.y /\ wall.x <= bt.x /\ bt.x <= wall.x + wall.w
      THEN Min(d[1], bt.y - (wall.y + wall.h)) ELSE d[1],
      IF wall.x >= bt.x /\ wall.y <= bt.y /\ bt.y <= wall.y + wall.h
      THEN Min(d[2], wall.x - bt.x) ELSE d[2],
      IF wall.y >= bt.y /\ wall.x <= bt.x /\ bt.x <= wall.x + wall.w
      THEN Min(d[3], wall.y - bt.y) ELSE d[3],
      IF wall.x + wall.w <= bt.x /\ wall.y <= bt.y /\ bt.y <= wall.y + wall.h
      THEN Min(d[4], bt.x - (wall.x + wall.w)) ELSE d[4]>>

RECURSIVE WallLoop(_, _, _, _)
\* compute_wall_distances 82-92: the loop from obstacle i on.
WallLoop(d, bt, walls, i) ==
    IF i > Len(walls) THEN d
    ELSE WallLoop(WallStep(d, bt, walls[i]), bt, walls, i + 1)

\* compute_wall_distances: [dist_N, dist_E, dist_S, dist_W] in deci-px.
compute_wall_distances(bt, walls, arena_w, arena_h) ==
    WallLoop(<<bt.y, arena_w * DPX - bt.x, arena_h * DPX - bt.y, bt.x>>, bt, walls, 1)

\* IsThreat with the lower bound of the window made strict (tca <= -0.05
\* rejects): a projectile exactly 0.05 s past its closest approach is dropped.
IsThreat_strict_lower(tca, miss_dist) ==
    /\ ~(tca <= -50 \/ tca > DANGER_TIME_WINDOW)
    /\ ~(2 * miss_dist >= 5 * COLLISION_MARGIN * DPX)

\* IsThreat without the upper bound of the window: every approaching
\* projectile on a close course is a threat, however far away in time.
IsThreat_no_upper(tca, miss_dist) ==
    /\ ~(tca < -50)
    /\ ~(2 * miss_dist >= 5 * COLLISION_MARGIN * DPX)

\* ------------------------------------------------------------------------
\* reflex.py: process_reflex
\* ------------------------------------------------------------------------
\* Lines 194-199: a projectile goes on to the dodge unless its closest
\* approach lies outside [-0.05 s, DANGER_TIME_WINDOW] or misses by at least
\* 2.5 x COLLISION_MARGIN.
IsThreat(tca, miss_dist) ==
    /\ ~(tca < -50 \/ tca > DANGER_TIME_WINDOW)
    /\ ~(2 * miss_dist >= 5 * COLLISION_MARGIN * DPX)

\* PickPerp without the side test: always perp_a.
PickPerp_always_a(travel, to_bot_x, to_bot_y) == <<travel[2], -travel[1]>>

\* PickPerp with the rotation written without its minus signs: (travel_y,
\* travel_x), which is no perpendicular of a diagonal travel direction.
PickPerp_no_minus(travel, to_bot_x, to_bot_y) ==
    IF travel[2] * to_bot_x + (-travel[1]) * to_bot_y >= 0
    THEN <<travel[2], travel[1]>>
    ELSE <<-travel[2], -travel[1]>>

\* Lines 205-207 and 215-221: perp_a = (travel_y, -travel_x) when its dot product
\* with to_bot is non-negative, else perp_b = (-travel_y, travel_x).
PickPerp(travel, to_bot_x, to_bot_y) ==
    IF travel[2] * to_bot_x + (-travel[1]) * to_bot_y >= 0
    THEN <<travel[2], -travel[1]>>
    ELSE <<-travel[2], travel[1]>>

\* Lines 203-221: the perpendicular of the travel direction on the bot's side
\* of the projectile's position at max(tca, 0).
ChosenPerp(b, bt, tca) ==
    PickPerp(_normalize(b.vx, b.vy),
             bt.x - (b.x + RDiv(b.vx * Max(tca, 0), ONE \div DPX)),
             bt.y - (b.y + RDiv(b.vy * Max(tca, 0), ONE \div DPX)))

\* Lines 229-233: flip when probe_wall_dot < -0.5.
FlipIfRepelled(chosen, wall_r) ==
    IF 2 * (wall_r[1] * chosen[1] + wall_r[2] * chosen[2]) < -(ONE * ONE)
    THEN Neg(chosen)
    ELSE chosen

\* Lines 223-233: flip the perpendicular when the point 30 px along it is
\* repelled with a dot product below -0.5.
ProbeFlip(chosen, bt, walls, arena_w, arena_h) ==
    FlipIfRepelled(chosen,
                   _wall_repulsion(bt.x + RDiv(chosen[1] * 30 * DPX, ONE),
                                   bt.y + RDiv(chosen[2] * 30 * DPX, ONE),
                                   walls, arena_w, arena_h))

\* Line 238: max(0, 1 - miss_dist / COLLISION_MARGIN).
HitFactor(miss_dist) == Max(0, ONE - RDiv(miss_dist * ONE, COLLISION_MARGIN * DPX))

\* Lines 235-239: DODGE_BASE_STRENGTH / max(tca, 0.03), times 0.4 + 0.6 * hit_factor.
Urgency(tca, miss_dist) ==
    RDiv(RDiv(DODGE_BASE_STRENGTH * ONE, Max(tca, 30))
             * (400 + RDiv(600 * HitFactor(miss_dist), ONE)),
         ONE)

\* Lines 241-244: the threat's share is added; acc holds dodge_x, dodge_y,
\* threat_count and max_urgency.
Accumulate(acc, chosen, urgency) ==
    [dodge_x |-> acc.dodge_x + RDiv(chosen[1] * urgency, ONE),
     dodge_y |-> acc.dodge_y + RDiv(chosen[2] * urgency, ONE),
     threat_count |-> acc.threat_count + 1,
     max_urgency |-> Max(acc.max_urgency, urgency)]

\* Lines 194-244, given ca = (tca, miss_dist) of projectile b.
ThreatAt(acc, b, ca, bt, walls, arena_w, arena_h) ==
    IF ~IsThreat(ca[1], ca[2]) THEN acc
    ELSE Accumulate(acc,
                    ProbeFlip(ChosenPerp(b, bt, ca[1]), bt, walls, arena_w, arena_h),
                    Urgency(ca[1], ca[2]))

\* One pass of the loop of lines 191-244 over projectile b.
ThreatStep(acc, b, bt, walls, arena_w, arena_h) ==
    ThreatAt(acc, b, _closest_approach(b.x, b.y, b.vx, b.vy, bt.x, bt.y),
             bt, walls, arena_w, arena_h)

RECURSIVE ThreatLoop(_, _, _, _, _, _, _)
\* The loop of lines 191-244 from projectile i on.
ThreatLoop(acc, bullets, i, bt, walls, arena_w, arena_h) ==
    IF i > Len(bullets) THEN acc
    ELSE ThreatLoop(ThreatStep(acc, bullets[i], bt, walls, arena_w, arena_h),
                    bullets, i + 1, bt, walls, arena_w, arena_h)

\* Lines 187-189: the accumulators before the loop.
NoThreat == [dodge_x |-> 0, dodge_y |-> 0, threat_count |-> 0, max_urgency |-> 0]

\* BlendWeight without the cap of urgency_scale at 1.
BlendWeight_uncapped(max_urgency) ==
    RDiv(INTENT_BLEND
             * (ONE - RDiv(RDiv(max_urgency * ONE, DODGE_BASE_STRENGTH) * 700, ONE)),
         ONE)

\* Lines 254-256: blend = INTENT_BLEND * (1 - urgency_scale * 0.7), with
\* urgency_scale = min(max_urgency / DODGE_BASE_STRENGTH, 1).
BlendWeight(max_urgency) ==
    RDiv(INTENT_BLEND
             * (ONE - RDiv(Min(RDiv(max_urgency * ONE, DODGE_BASE_STRENGTH), ONE) * 700,
                           ONE)),
         ONE)

\* Lines 257-258: norm_dodge * (1 - blend) + intent * blend.
Mix(norm_dodge, blend, bt) ==
    <<RDiv(norm_dodge[1] * (ONE - blend) + bt.intent_dx * blend, ONE),
      RDiv(norm_dodge[2] * (ONE - blend) + bt.intent_dy * blend, ONE)>>

\* Blend without the else branch of line 260: the intent is weighted by the
\* blend factor even when nothing was dodged.
Blend_always(acc, bt) ==
    Mix(_normalize(acc.dodge_x, acc.dodge_y), BlendWeight(acc.max_urgency), bt)

\* Lines 246-261: the direction before wall repulsion.
Blend(acc, bt) ==
    IF acc.threat_count > 0
    THEN Mix(_normalize(acc.dodge_x, acc.dodge_y), BlendWeight(acc.max_urgency), bt)
    ELSE <<bt.intent_dx, bt.intent_dy>>

\* HardClamp with the comparisons of the low edges turned round (dx > 0 at
\* the west edge, dy > 0 at the north edge).
HardClamp_low_sign(d, bt, arena_w, arena_h) ==
    <<IF bt.x < WALL_BUFFER * DPX /\ d[1] > 0 THEN 0
      ELSE IF bt.x > (arena_w - WALL_BUFFER) * DPX /\ d[1] > 0 THEN 0
      ELSE d[1],
      IF bt.y < WALL_BUFFER * DPX /\ d[2] > 0 THEN 0
      ELSE IF bt.y > (arena_h - WALL_BUFFER) * DPX /\ d[2] > 0 THEN 0
      ELSE d[2]>>

\* Lines 268-276: the hard clamp at the perimeter.
HardClamp(d, bt, arena_w, arena_h) ==
    <<IF bt.x < WALL_BUFFER * DPX /\ d[1] < 0 THEN 0
      ELSE IF bt.x > (arena_w - WALL_BUFFER) * DPX /\ d[1] > 0 THEN 0
      ELSE d[1],
      IF bt.y < WALL_BUFFER * DPX /\ d[2] < 0 THEN 0
      ELSE IF bt.y > (arena_h - WALL_BUFFER) * DPX /\ d[2] > 0 THEN 0
      ELSE d[2]>>

\* Result with the fire flag held back while a dodge is in progress.
Result_holds_fire(acc, pre, d, bt, speed) ==
    [vx |-> _normalize(d[1], d[2])[1] * speed,
     vy |-> _normalize(d[1], d[2])[2] * speed,
     should_shoot |-> bt.shoot_intent /\ acc.threat_count = 0,
     dir_x |-> _normalize(d[1], d[2])[1], dir_y |-> _normalize(d[1], d[2])[2],
     pre_dx |-> pre[1], pre_dy |-> pre[2],
     dodge_x |-> acc.dodge_x, dodge_y |-> acc.dodge_y,
     threat_count |-> acc.threat_count, max_urgency |-> acc.max_urgency]

\* Lines 279-286: the returned triple from the clamped direction d, with the
\* locals the claims speak of.
Result(acc, pre, d, bt, speed) ==
    [vx |-> _normalize(d[1], d[2])[1] * speed,
     vy |-> _normalize(d[1], d[2])[2] * speed,
     should_shoot |-> bt.shoot_intent,
     dir_x |-> _normalize(d[1], d[2])[1], dir_y |-> _normalize(d[1], d[2])[2],
     pre_dx |-> pre[1], pre_dy |-> pre[2],
     dodge_x |-> acc.dodge_x, dodge_y |-> acc.dodge_y,
     threat_count |-> acc.threat_count, max_urgency |-> acc.max_urgency]

\* Lines 263-286, given the direction pre before wall repulsion.
AfterBlend(acc, pre, bt, walls, speed, arena_w, arena_h) ==
    Result(acc, pre,
           HardClamp(Add(pre, Scale(_wall_repulsion(bt.x, bt.y, walls, arena_w, arena_h),
                                    500)),
                     bt, arena_w, arena_h),
           bt, speed)

\* Lines 246-286, given the accumulators the loop leaves.
AfterLoop(acc, bt, walls, speed, arena_w, arena_h) ==
    AfterBlend(acc, Blend(acc, bt), bt, walls, speed, arena_w, arena_h)

\* process_reflex with the dodge accumulators kept between calls instead of
\* being reset at lines 179-182.
process_reflex_stale(bt, bullets, walls, speed, arena_w, arena_h, dt) ==
    AfterLoop(ThreatLoop([dodge_x |-> rv.dodge_x, dodge_y |-> rv.dodge_y,
                          threat_count |-> rv.threat_count,
                          max_urgency |-> rv.max_urgency],
                         bullets, 1, bt, walls, arena_w, arena_h),
              bt, walls, speed, arena_w, arena_h)

\* A variant of process_reflex that first moves the agent by its own velocity
\* over dt (vx in px/s, dt in ms, positions in deci-px).
process_reflex_moving(bt, bullets, walls, speed, arena_w, arena_h, dt) ==
    AfterLoop(ThreatLoop(NoThreat, bullets, 1,
                         [bt EXCEPT !.x = @ + (bt.vx * dt) \div 100,
                                    !.y = @ + (bt.vy * dt) \div 100],
                         walls, arena_w, arena_h),
              [bt EXCEPT !.x = @ + (bt.vx * dt) \div 100,
                         !.y = @ + (bt.vy * dt) \div 100],
              walls, speed, arena_w, arena_h)

\* process_reflex.  dt is a parameter the body never reads.
process_reflex(bt, bullets, walls, speed, arena_w, arena_h, dt) ==
    AfterLoop(ThreatLoop(NoThreat, bullets, 1, bt, walls, arena_w, arena_h),
              bt, walls, speed, arena_w, arena_h)

\* ------------------------------------------------------------------------
\* Inputs of the reflex layer
\* ------------------------------------------------------------------------
MaxBullets == 2

BotState(x, y, intent_dx, intent_dy, shoot_intent) ==
    [x |-> x, y |-> y, vx |-> 0, vy |-> 0, hp |-> 100,
     intent_dx |-> intent_dx, intent_dy |-> intent_dy,
     shoot_intent |-> shoot_intent, frame_vx |-> 0, frame_vy |-> 0]

BulletInfo(x, y, vx, vy) == [x |-> x, y |-> y, vx |-> vx, vy |-> vy]

WallRect(x, y, w_, h) == [x |-> x, y |-> y, w |-> w_, h |-> h]

\* Agent positions (deci-px): the centre, half a wall buffer from the west,
\* east and south edges, the north-west corner, and exactly one wall buffer
\* from the west edge.
Positions ==
    {<<4000, 3000>>, <<190, 3000>>, <<7810, 3000>>, <<4000, 5810>>,
     <<190, 190>>, <<380, 3000>>}

Intents == {<<0, 0>>, <<-1000, 0>>, <<1000, 0>>, <<600, -800>>, <<0, 1000>>}

BotStates ==
    {BotState(p[1], p[2], i[1], i[2], s) :
        p \in Positions, i \in Intents, s \in BOOLEAN}

\* Projectiles, named by what they are for an agent at the centre.
BulletFar == BulletInfo(4000, 1000, 0, 150)      \* tca 1.333 s, past the window
BulletHit == BulletInfo(4000, 1500, 0, 150)      \* tca 1.0 s, miss 0
BulletEdgeT == BulletInfo(4100, 1800, 0, 100)    \* tca 1.2 s exactly, miss 10 px
BulletEdgeM == BulletInfo(4725, 2500, 0, 100)    \* tca 0.5 s, miss 72.5 px exactly
BulletPast == BulletInfo(3900, 3050, 0, 100)     \* tca -0.05 s exactly, miss 10 px
BulletWest == BulletInfo(250, 2000, 0, 200)      \* passes 6 px east of the west position

Bullets == {BulletFar, BulletHit, BulletEdgeT, BulletEdgeM, BulletPast, BulletWest}

RECURSIVE SeqsUpTo(_, _)
\* The sequences over S of length at most n.
SeqsUpTo(S, n) ==
    IF n = 0 THEN {<<>>}
    ELSE LET shorter == SeqsUpTo(S, n - 1)
         IN shorter \cup {Append(q, e) : q \in shorter, e \in S}

BulletLists == SeqsUpTo(Bullets, MaxBullets)

\* No obstacle, one obstacle 20 px east of the centre, or one obstacle 11 px
\* east of the west position.
WallLayouts ==
    {<<>>, <<WallRect(4200, 2800, 600, 400)>>, <<WallRect(300, 2800, 300, 400)>>}

\* The obstacles tried at a position: every layout at the centre, the west
\* obstacle at the west position, none elsewhere.
WallLayoutsAt(bt) ==
    IF bt.x = 4000 /\ bt.y = 3000 THEN WallLayouts
    ELSE IF bt.x = 190 /\ bt.y = 3000 THEN {<<>>, <<WallRect(300, 2800, 300, 400)>>}
    ELSE {<<>>}

Speeds == {0, 230}

NoResult == [vx |-> 0, vy |-> 0, should_shoot |-> FALSE, dir_x |-> 0, dir_y |-> 0,
             pre_dx |-> 0, pre_dy |-> 0,
             dodge_x |-> 0, dodge_y |-> 0, threat_count |-> 0, max_urgency |-> 0]

\* The arguments the game loop passes to process_reflex.
Args == <<bot_reflex, player_bullet_infos, map_walls, bot_speed>>

NoMemo == [set |-> FALSE, args |-> <<>>, out |-> NoResult, between |-> FALSE]

\* ------------------------------------------------------------------------
\* Decisions of the producer
\* ------------------------------------------------------------------------
MaxTicks == 2

\* A JSON value of a parsed decision: a number, or one float() cannot convert.
Num(v) == [t |-> "num", v |-> v]

Null == [t |-> "null", v |-> 0]

\* What _parse_response can hand to on_ai_decision: json.loads keeps any value
\* under "dx", "dy" and "shoot" (ai_pipeline.py 93-100).
Decisions ==
    {[dx |-> Num(1000), dy |-> Num(0), shoot |-> TRUE],
     [dx |-> Num(-1000), dy |-> Num(1000), shoot |-> FALSE],
     [dx |-> Num(500), dy |-> Null, shoot |-> TRUE],
     [dx |-> Null, dy |-> Num(500), shoot |-> TRUE]}

Idle == [pc |-> "idle", task |-> 0, id |-> 0, dec |-> [dx |-> Null, dy |-> Null, shoot |-> FALSE]]

Default == [dx |-> 0, dy |-> 0, shoot |-> FALSE]

Slot == [dx |-> ai_dx, dy |-> ai_dy, shoot |-> ai_shoot]

TaskIds == 0 .. MaxTicks - 1

\* ------------------------------------------------------------------------
\* GameState.set_ai_decision, run by the task the event loop is running
\* (game.py 321-325)
\* ------------------------------------------------------------------------
\* The end of the call: the task that ran it is done and the event loop is free.
WriterLeaves == /\ tasks' = [tasks EXCEPT ![w.task] = "done"]
                /\ w' = Idle

\* with self._ai_lock: (enter)
SetLock ==
    /\ w.pc = "lock"
    /\ ai_lock = "free"
    /\ ai_lock' = "producer"
    /\ w' = [w EXCEPT !.pc = "dx"]
    /\ UNCHANGED <<ai_dx, ai_dy, ai_shoot, ai_src, nwrites, last_done, tasks>>
    /\ UNCHANGED <<stop_event, async_stop, ppc, tick, gpc, readVars, reflexVars>>
    /\ UNCHANGED sessionVars

\* self.ai_dx = float(decision.get("dx", 0.0)); a value float() rejects raises
\* out of the with block, which releases the lock.
SetDx ==
    /\ w.pc = "dx"
    /\ IF w.dec.dx.t = "num"
       THEN /\ ai_dx' = w.dec.dx.v
            /\ ai_src' = [ai_src EXCEPT !.dx = w.id]
            /\ w' = [w EXCEPT !.pc = "dy"]
            /\ UNCHANGED <<ai_lock, tasks>>
       ELSE /\ ai_lock' = "free"
            /\ WriterLeaves
            /\ UNCHANGED <<ai_dx, ai_src>>
    /\ UNCHANGED <<ai_dy, ai_shoot, nwrites, last_done>>
    /\ UNCHANGED <<stop_event, async_stop, ppc, tick, gpc, readVars, reflexVars>>
    /\ UNCHANGED sessionVars

\* SetDy with the lock taken and released by explicit calls instead of a
\* with block: the exception leaves the lock held.
SetDy_lock_kept ==
    /\ w.pc = "dy"
    /\ IF w.dec.dy.t = "num"
       THEN /\ ai_dy' = w.dec.dy.v
            /\ ai_src' = [ai_src EXCEPT !.dy = w.id]
            /\ w' = [w EXCEPT !.pc = "shoot"]
            /\ UNCHANGED <<ai_lock, tasks>>
       ELSE /\ WriterLeaves
            /\ UNCHANGED <<ai_lock, ai_dy, ai_src>>
    /\ UNCHANGED <<ai_dx, ai_shoot, nwrites, last_done>>
    /\ UNCHANGED <<stop_event, async_stop, ppc, tick, gpc, readVars, reflexVars>>
    /\ UNCHANGED sessionVars

\* self.ai_dy = float(decision.get("dy", 0.0))
SetDy ==
    /\ w.pc = "dy"
    /\ IF w.dec.dy.t = "num"
       THEN /\ ai_dy' = w.dec.dy.v
            /\ ai_src' = [ai_src EXCEPT !.dy = w.id]
            /\ w' = [w EXCEPT !.pc = "shoot"]
            /\ UNCHANGED <<ai_lock, tasks>>
       ELSE /\ ai_lock' = "free"
            /\ WriterLeaves
            /\ UNCHANGED <<ai_dy, ai_src>>
    /\ UNCHANGED <<ai_dx, ai_shoot, nwrites, last_done>>
    /\ UNCHANGED <<stop_event, async_stop, ppc, tick, gpc, readVars, reflexVars>>
    /\ UNCHANGED sessionVars

\* self.ai_shoot = bool(decision.get("shoot", False)); bool() never raises.
SetShoot ==
    /\ w.pc = "shoot"
    /\ ai_shoot' = w.dec.shoot
    /\ ai_src' = [ai_src EXCEPT !.shoot = w.id]
    /\ w' = [w EXCEPT !.pc = "unlock"]
    /\ UNCHANGED <<ai_lock, ai_dx, ai_dy, nwrites, last_done, tasks>>
    /\ UNCHANGED <<stop_event, async_stop, ppc, tick, gpc, readVars, reflexVars>>
    /\ UNCHANGED sessionVars

\* with self._ai_lock: (exit), and the return to call_claude, which ends.
SetUnlock ==
    /\ w.pc = "unlock"
    /\ ai_lock' = "free"
    /\ last_done' = [id |-> w.id, rec |-> Slot, task |-> w.task]
    /\ WriterLeaves
    /\ UNCHANGED <<ai_dx, ai_dy, ai_shoot, ai_src, nwrites>>
    /\ UNCHANGED <<stop_event, async_stop, ppc, tick, gpc, readVars, reflexVars>>
    /\ UNCHANGED sessionVars

\* ------------------------------------------------------------------------
\* The producer: AIThread.run and run_pipeline
\* ------------------------------------------------------------------------
\* Between two awaits the event loop runs one callback or coroutine at a time:
\* nothing else of the producer runs while a task is inside set_ai_decision.
LoopFree == w.pc = "idle"

\* AIThread.run._poll (game.py 1220-1225)
Poll ==
    /\ LoopFree
    /\ stop_event
    /\ ~async_stop
    /\ async_stop' = TRUE
    /\ UNCHANGED <<stop_event, ppc, tick, tasks, w>>
    /\ UNCHANGED <<slotVars, gpc, readVars, reflexVars>>
    /\ UNCHANGED sessionVars

\* run_pipeline 194-202: one pass of the loop up to the sleep.
PipelineFire ==
    /\ LoopFree
    /\ ppc = "loop"
    /\ IF async_stop
       THEN /\ ppc' = "gather"
            /\ UNCHANGED <<tick, tasks>>
       ELSE /\ tasks' = [tasks EXCEPT ![tick] = "pending"]
            /\ tick' = tick + 1
            /\ ppc' = "sleep"
    /\ UNCHANGED <<stop_event, async_stop, w>>
    /\ UNCHANGED <<slotVars, gpc, readVars, reflexVars>>
    /\ UNCHANGED sessionVars

\* PipelineFire within the first n passes: the loop of lines 194-202 has no
\* bound of its own, each specification gives it one.
Fire(n) == PipelineFire /\ (async_stop \/ tick < n)

\* run_pipeline 202: asyncio.sleep(fire_interval) returns.
PipelineWake ==
    /\ LoopFree
    /\ ppc = "sleep"
    /\ ppc' = "loop"
    /\ UNCHANGED <<stop_event, async_stop, tick, tasks, w>>
    /\ UNCHANGED <<slotVars, gpc, readVars, reflexVars>>
    /\ UNCHANGED sessionVars

\* run_pipeline 204-206: CancelledError raised at the sleep.
PipelineCancelled ==
    /\ LoopFree
    /\ ppc = "sleep"
    /\ ppc' = "gather"
    /\ UNCHANGED <<stop_event, async_stop, tick, tasks, w>>
    /\ UNCHANGED <<slotVars, gpc, readVars, reflexVars>>
    /\ UNCHANGED sessionVars

\* PipelineGather without the gather of line 209: the pipeline returns
\* while requests are pending.
PipelineGather_no_wait ==
    /\ LoopFree
    /\ ppc = "gather"
    /\ ppc' = "done"
    /\ UNCHANGED <<stop_event, async_stop, tick, tasks, w>>
    /\ UNCHANGED <<slotVars, gpc, readVars, reflexVars>>
    /\ UNCHANGED sessionVars

\* run_pipeline 206-210: the gather returns once no task is pending.
PipelineGather ==
    /\ LoopFree
    /\ ppc = "gather"
    /\ \A i \in DOMAIN tasks : tasks[i] # "pending"
    /\ ppc' = "done"
    /\ UNCHANGED <<stop_event, async_stop, tick, tasks, w>>
    /\ UNCHANGED <<slotVars, gpc, readVars, reflexVars>>
    /\ UNCHANGED sessionVars

\* A variant of TaskFails in which the failure reaches the loop of run_pipeline
\* and ends it.
TaskFails_stops(i) ==
    /\ LoopFree
    /\ tasks[i] = "pending"
    /\ tasks' = [tasks EXCEPT ![i] = "done"]
    /\ ppc' = "gather"
    /\ UNCHANGED <<stop_event, async_stop, tick, w>>
    /\ UNCHANGED <<slotVars, gpc, readVars, reflexVars>>
    /\ UNCHANGED sessionVars

\* call_claude 160-186 with the remote call failing, or answering with no
\* parsable decision: the task ends without calling on_ai_decision.
TaskFails(i) ==
    /\ LoopFree
    /\ tasks[i] = "pending"
    /\ tasks' = [tasks EXCEPT ![i] = "done"]
    /\ UNCHANGED <<stop_event, async_stop, ppc, tick, w>>
    /\ UNCHANGED <<slotVars, gpc, readVars, reflexVars>>
    /\ UNCHANGED sessionVars

\* call_claude 170-184 with a parsed decision: on_ai_decision(decision).
TaskDecides(i, d) ==
    /\ LoopFree
    /\ tasks[i] = "pending"
    /\ nwrites' = nwrites + 1
    /\ w' = [pc |-> "lock", task |-> i, id |-> nwrites + 1, dec |-> d]
    /\ UNCHANGED <<stop_event, async_stop, ppc, tick, tasks>>
    /\ UNCHANGED <<ai_lock, ai_dx, ai_dy, ai_shoot, ai_src, last_done>>
    /\ UNCHANGED <<gpc, readVars, reflexVars>>
    /\ UNCHANGED sessionVars

\* ------------------------------------------------------------------------
\* The game loop (game.py run_game 998-1100)
\* ------------------------------------------------------------------------
\* 1003-1038: a quit event, Escape or the end of the match sets stop_event and
\* leaves the loop.
GameStop ==
    /\ gpc = "tick"
    /\ ~stop_event
    /\ stop_event' = TRUE
    /\ gpc' = "exit"
    /\ UNCHANGED <<async_stop, ppc, tick, tasks, w, slotVars, readVars, reflexVars>>
    /\ UNCHANGED sessionVars

\* 1064: shared_state.get_ai_decision() is called.
GetCall ==
    /\ gpc = "tick"
    /\ ~stop_event
    /\ gpc' = "lock"
    /\ UNCHANGED <<slotVars, readVars, pipeVars, reflexVars>>
    /\ UNCHANGED sessionVars

\* get_ai_decision (game.py 327-329): with self._ai_lock: (enter)
GetLock ==
    /\ gpc = "lock"
    /\ ai_lock = "free"
    /\ ai_lock' = "game"
    /\ seen_done' = last_done
    /\ seen_fresh' = (nwrites = 0)
    /\ gpc' = "dx"
    /\ UNCHANGED <<ai_dx, ai_dy, ai_shoot, ai_src, nwrites, last_done, r, r_src,
                   pipeVars, reflexVars>>
    /\ UNCHANGED sessionVars

\* return self.ai_dx, self.ai_dy, self.ai_shoot: three attribute loads.
GetDx ==
    /\ gpc = "dx"
    /\ r' = [r EXCEPT !.dx = ai_dx]
    /\ r_src' = [r_src EXCEPT !.dx = ai_src.dx]
    /\ gpc' = "dy"
    /\ UNCHANGED <<slotVars, seen_done, seen_fresh, pipeVars, reflexVars>>
    /\ UNCHANGED sessionVars

GetDy ==
    /\ gpc = "dy"
    /\ r' = [r EXCEPT !.dy = ai_dy]
    /\ r_src' = [r_src EXCEPT !.dy = ai_src.dy]
    /\ gpc' = "shoot"
    /\ UNCHANGED <<slotVars, seen_done, seen_fresh, pipeVars, reflexVars>>
    /\ UNCHANGED sessionVars

GetShoot ==
    /\ gpc = "shoot"
    /\ r' = [r EXCEPT !.shoot = ai_shoot]
    /\ r_src' = [r_src EXCEPT !.shoot = ai_src.shoot]
    /\ gpc' = "unlock"
    /\ UNCHANGED <<slotVars, seen_done, seen_fresh, pipeVars, reflexVars>>
    /\ UNCHANGED sessionVars

\* with self._ai_lock: (exit); the tuple is returned.
GetUnlock ==
    /\ gpc = "unlock"
    /\ ai_lock' = "free"
    /\ gpc' = "feed"
    /\ UNCHANGED <<ai_dx, ai_dy, ai_shoot, ai_src, nwrites, last_done, readVars,
                   pipeVars, reflexVars>>
    /\ UNCHANGED sessionVars

\* 1066-1073: the returned intent is fed into bot_reflex.
Feed ==
    /\ gpc = "feed"
    /\ bot_reflex' = [bot_reflex EXCEPT !.intent_dx = r.dx, !.intent_dy = r.dy,
                                        !.shoot_intent = r.shoot]
    /\ gpc' = "ready"
    /\ UNCHANGED <<player_bullet_infos, map_walls, bot_speed, rv, memo, wall_dists,
                   slotVars, readVars, pipeVars>>
    /\ UNCHANGED sessionVars

\* ReflexTick with process_reflex storing the velocity it returns in the
\* frame_vx and frame_vy fields of the BotState it was given.
ReflexTick_writes_frame ==
    /\ gpc = "ready"
    /\ rv' = process_reflex(bot_reflex, player_bullet_infos, map_walls, bot_speed,
                            ARENA_W, ARENA_H, 17)
    /\ bot_reflex' = [bot_reflex EXCEPT !.frame_vx = rv'.vx, !.frame_vy = rv'.vy]
    /\ memo' = IF ~memo.set
               THEN [set |-> TRUE, args |-> Args, out |-> rv', between |-> FALSE]
               ELSE [memo EXCEPT !.between = @ \/ Args # memo.args]
    /\ gpc' = "done"
    /\ UNCHANGED <<player_bullet_infos, map_walls, bot_speed, wall_dists,
                   slotVars, readVars, pipeVars>>
    /\ UNCHANGED sessionVars

\* 1080-1083: rvx, rvy, rshoot = process_reflex(...)
ReflexTick ==
    /\ gpc = "ready"
    /\ rv' = process_reflex(bot_reflex, player_bullet_infos, map_walls, bot_speed,
                            ARENA_W, ARENA_H, 17)
    /\ memo' = IF ~memo.set
               THEN [set |-> TRUE, args |-> Args, out |-> rv', between |-> FALSE]
               ELSE [memo EXCEPT !.between = @ \/ Args # memo.args]
    /\ gpc' = "done"
    /\ UNCHANGED <<bot_reflex, player_bullet_infos, map_walls, bot_speed, wall_dists,
                   slotVars, readVars, pipeVars>>
    /\ UNCHANGED sessionVars

\* 1084-1188: the rest of a tick on which the telemetry timer has not run out.
EndTick ==
    /\ gpc = "done"
    /\ gpc' = "tick"
    /\ UNCHANGED <<reflexVars, slotVars, readVars, pipeVars>>
    /\ UNCHANGED sessionVars

\* 1084-1188 on a tick on which telemetry_timer >= 0.25 (1155-1158):
\* shared_state.update(build_ai_game_state(...)), whose "walls" entry is
\* compute_wall_distances rounded to 0.1 px (game.py 910-912, 922).
Telemetry ==
    /\ gpc = "done"
    /\ wall_dists' = compute_wall_distances(bot_reflex, map_walls, ARENA_W, ARENA_H)
    /\ gpc' = "tick"
    /\ UNCHANGED <<bot_reflex, player_bullet_infos, map_walls, bot_speed, rv, memo,
                   slotVars, readVars, pipeVars>>
    /\ UNCHANGED sessionVars

\* GameState.__init__ (game.py 309-311): no observation; no list returned
\* yet.  The memory file does not exist and no save_session is running.
NoList == [set |-> FALSE, same |-> FALSE, list |-> <<>>, held |-> <<>>]

NoSave == [pc |-> "idle", observations |-> <<>>, winner |-> "", summary |-> FALSE]

SessionInit ==
    /\ observations = <<>>
    /\ nobs = 0
    /\ obs_ret = NoList
    /\ memory_file = <<>>
    /\ nsaved = 0
    /\ save = NoSave

\* ------------------------------------------------------------------------
\* Specifications
\* ------------------------------------------------------------------------
\* GameState.__init__ (game.py 301-319)
SlotInit ==
    /\ ai_lock = "free"
    /\ ai_dx = 0
    /\ ai_dy = 0
    /\ ai_shoot = FALSE
    /\ ai_src = [dx |-> 0, dy |-> 0, shoot |-> 0]
    /\ nwrites = 0
    /\ last_done = [id |-> 0, rec |-> Default, task |-> -1]
    /\ r = Default
    /\ r_src = [dx |-> 0, dy |-> 0, shoot |-> 0]
    /\ seen_done = [id |-> 0, rec |-> Default, task |-> -1]
    /\ seen_fresh = TRUE

\* main and AIThread.run before the first pass of run_pipeline's loop.
PipeInit ==
    /\ stop_event = FALSE
    /\ async_stop = FALSE
    /\ ppc = "loop"
    /\ tick = 0
    /\ tasks = [i \in TaskIds |-> "none"]
    /\ w = Idle

\* The whole program: the bot at its spawn, no projectile in flight, and the
\* "walls" entry main seeds shared_state with (game.py 1262-1268).
Init ==
    /\ SlotInit
    /\ SessionInit
    /\ PipeInit
    /\ gpc = "tick"
    /\ bot_reflex = BotState(6500, 3000, 0, 0, FALSE)
    /\ player_bullet_infos = <<>>
    /\ map_walls = <<>>
    /\ bot_speed = 230
    /\ rv = NoResult
    /\ memo = NoMemo
    /\ wall_dists = <<3000, 1500, 3000, 6500>>

\* The producer thread: the event loop of AIThread.run.
Producer ==
    \/ Poll
    \/ Fire(MaxTicks)
    \/ PipelineWake
    \/ PipelineCancelled
    \/ PipelineGather
    \/ \E i \in TaskIds : TaskFails(i)
    \/ \E i \in TaskIds : \E d \in Decisions : TaskDecides(i, d)
    \/ SetLock
    \/ SetDx
    \/ SetDy
    \/ SetShoot
    \/ SetUnlock

\* The game loop thread.
Game ==
    \/ GameStop
    \/ GetCall
    \/ GetLock
    \/ GetDx
    \/ GetDy
    \/ GetShoot
    \/ GetUnlock
    \/ Feed
    \/ ReflexTick
    \/ EndTick
    \/ Telemetry

Next == Producer \/ Game

Spec == Init /\ [][Next]_vars

\* The reflex layer alone: one call of process_reflex on each input, before
\* any telemetry.
ReflexInit ==
    /\ SlotInit
    /\ SessionInit
    /\ PipeInit
    /\ gpc = "ready"
    /\ bot_reflex \in BotStates
    /\ player_bullet_infos \in BulletLists
    /\ map_walls \in WallLayoutsAt(bot_reflex)
    /\ bot_speed \in Speeds
    /\ rv = NoResult
    /\ memo = NoMemo
    /\ wall_dists = <<>>

ReflexNext == ReflexTick

ReflexSpec == ReflexInit /\ [][ReflexNext]_vars

\* The reflex layer over several ticks: between two calls the game loop feeds
\* the bot and the projectiles of the new tick (game.py 1066-1078).
ReplayBots ==
    {BotState(p[1], p[2], i[1], i[2], TRUE) :
        p \in {<<4000, 3000>>, <<190, 3000>>}, i \in {<<0, 0>>, <<600, -800>>}}

ReplayBulletLists == SeqsUpTo({BulletHit, BulletWest}, MaxBullets)

FeedWorld ==
    /\ gpc = "done"
    /\ bot_reflex' \in ReplayBots
    /\ player_bullet_infos' \in ReplayBulletLists
    /\ gpc' = "ready"
    /\ UNCHANGED <<map_walls, bot_speed, rv, memo, wall_dists, slotVars, readVars,
                   pipeVars>>
    /\ UNCHANGED sessionVars

ReplayInit ==
    /\ SlotInit
    /\ SessionInit
    /\ PipeInit
    /\ gpc = "ready"
    /\ bot_reflex \in ReplayBots
    /\ player_bullet_infos \in ReplayBulletLists
    /\ map_walls = <<>>
    /\ bot_speed = 230
    /\ rv = NoResult
    /\ memo = NoMemo
    /\ wall_dists = <<>>

ReplayNext == ReflexTick \/ FeedWorld

ReplaySpec == ReplayInit /\ [][ReplayNext]_vars

\* The reflex layer on projectiles that are threats to a bot at the centre:
\* aimed at it, passing on either side, on diagonal courses, just past it,
\* and at rest.
BulletAimed == BulletInfo(4000, 2580, 0, 420)     \* tca 0.1 s, miss 0
BulletLeft == BulletInfo(3900, 2580, 0, 420)      \* tca 0.1 s, passes 10 px west
BulletRight == BulletInfo(4100, 2580, 0, 420)     \* tca 0.1 s, passes 10 px east
BulletSkew == BulletInfo(3828, 2604, 252, 336)    \* tca 0.1 s, passes 10 px north-east
BulletDiag == BulletInfo(3480, 2140, 300, 400)    \* tca 0.2 s, miss 10 px
BulletGone == BulletInfo(4170, 3060, 300, 400)    \* tca -0.03 s, miss 10 px
BulletStill == BulletInfo(4100, 3000, 0, 0)       \* at rest 10 px east
BulletOnBot == BulletInfo(4000, 3000, 0, 0)       \* at rest on the bot
BulletThrough == BulletInfo(3880, 2898, -400, -340)  \* tca -0.03 s, miss 0

ThreatBullets ==
    {BulletAimed, BulletLeft, BulletRight, BulletSkew, BulletDiag, BulletGone,
     BulletStill, BulletOnBot, BulletPast, BulletThrough}

\* The bot at the centre or on the west edge, with and without intent.
ThreatBots ==
    {BotState(p[1], p[2], i[1], i[2], FALSE) :
        p \in {<<4000, 3000>>, <<0, 3000>>}, i \in {<<0, 0>>, <<600, -800>>}}

\* No obstacle, or one whose west side passes through the centre.
ThreatWalls == {<<>>, <<WallRect(4000, 2800, 600, 400)>>}

ThreatInit ==
    /\ SlotInit
    /\ SessionInit
    /\ PipeInit
    /\ gpc = "ready"
    /\ bot_reflex \in ThreatBots
    /\ player_bullet_infos \in SeqsUpTo(ThreatBullets, MaxBullets)
    /\ map_walls \in ThreatWalls
    /\ bot_speed = 230
    /\ rv = NoResult
    /\ memo = NoMemo
    /\ wall_dists = <<>>

ThreatNext == ReflexTick

ThreatSpec == ThreatInit /\ [][ThreatNext]_vars

\* The reflex layer and the telemetry of one tick, on a bot next to, beside,
\* against and inside obstacles, and in the corners of the arena.
WallNorth == WallRect(3800, 2000, 400, 500)     \* x 380..420, y 200..250
WallNear == WallRect(3900, 2600, 300, 200)      \* x 390..420, y 260..280
WallEast == WallRect(4200, 2800, 600, 400)      \* x 420..480, y 280..320
WallDiag == WallRect(4200, 3100, 600, 400)      \* x 420..480, y 310..350
WallWest == WallRect(3000, 2900, 500, 200)      \* x 300..350, y 290..310

WallSets ==
    {<<>>, <<WallNorth>>, <<WallEast>>, <<WallDiag>>, <<WallNorth, WallNear>>,
     <<WallNear, WallNorth>>, <<WallEast, WallWest>>, <<WallDiag, WallNorth>>}

WallBots ==
    {BotState(p[1], p[2], i[1], i[2], FALSE) :
        p \in {<<4000, 3000>>, <<3800, 3000>>, <<3790, 3000>>, <<4200, 3000>>,
               <<4000, 2500>>, <<4000, 2300>>, <<4000, 3100>>, <<0, 0>>,
               <<8000, 6000>>},
        i \in {<<0, 0>>, <<600, -800>>}}

WallInit ==
    /\ SlotInit
    /\ SessionInit
    /\ PipeInit
    /\ gpc = "ready"
    /\ bot_reflex \in WallBots
    /\ player_bullet_infos = <<>>
    /\ map_walls \in WallSets
    /\ bot_speed = 230
    /\ rv = NoResult
    /\ memo = NoMemo
    /\ wall_dists = <<>>

WallNext == ReflexTick \/ Telemetry

WallSpec == WallInit /\ [][WallNext]_vars

\* The reflex layer on a bot in the corridor of the maze map between the west
\* edge of the arena and the obstacle (80, 150, 40, 300) (game.py 173).
MazeWall == WallRect(800, 1500, 400, 3000)
BulletCorrWest == BulletInfo(350, 2580, 0, 420)     \* tca 0.1 s, passes 5 px west
BulletCorrEast == BulletInfo(450, 2580, 0, 420)     \* tca 0.1 s, passes 5 px east
BulletCorrAcross == BulletInfo(50, 3050, 420, 0)    \* tca 0.083 s, passes 5 px south
BulletCorrStill == BulletInfo(450, 3050, 0, 0)      \* at rest 7 px south-east

CorridorBullets == {BulletCorrWest, BulletCorrEast, BulletCorrAcross, BulletCorrStill}

CorridorBots ==
    {BotState(p[1], p[2], i[1], i[2], FALSE) :
        p \in {<<400, 3000>>, <<600, 3000>>}, i \in {<<0, 0>>, <<600, -800>>}}

CorridorInit ==
    /\ SlotInit
    /\ SessionInit
    /\ PipeInit
    /\ gpc = "ready"
    /\ bot_reflex \in CorridorBots
    /\ player_bullet_infos \in SeqsUpTo(CorridorBullets, MaxBullets)
    /\ map_walls \in {<<>>, <<MazeWall>>}
    /\ bot_speed = 230
    /\ rv = NoResult
    /\ memo = NoMemo
    /\ wall_dists = <<>>

CorridorNext == ReflexTick

CorridorSpec == CorridorInit /\ [][CorridorNext]_vars

\* The producer alone over num_instances + 1 fire intervals, with requests
\* that end without a decision, at any time after they were launched.
num_instances == 4

PoolIds == 0 .. num_instances

PoolInit ==
    /\ SlotInit
    /\ SessionInit
    /\ stop_event = FALSE
    /\ async_stop = FALSE
    /\ ppc = "loop"
    /\ tick = 0
    /\ tasks = [i \in PoolIds |-> "none"]
    /\ w = Idle
    /\ gpc = "tick"
    /\ bot_reflex = BotState(6500, 3000, 0, 0, FALSE)
    /\ player_bullet_infos = <<>>
    /\ map_walls = <<>>
    /\ bot_speed = 230
    /\ rv = NoResult
    /\ memo = NoMemo
    /\ wall_dists = <<3000, 1500, 3000, 6500>>

PoolNext ==
    \/ Fire(num_instances + 1)
    \/ PipelineWake
    \/ PipelineCancelled
    \/ PipelineGather
    \/ \E i \in PoolIds : TaskFails(i)
    \/ Poll
    \/ GameStop

PoolSpec == PoolInit /\ [][PoolNext]_vars

\* The program under the scheduling its threads have: a thread inside a with
\* block of the lock runs on to the end of the block, and the game loop gets
\* the lock if it is free again and again.  No remote call is assumed to end
\* and the pipeline is not assumed to make progress.
FairSpec ==
    /\ Spec
    /\ WF_vars(SetDx) /\ WF_vars(SetDy) /\ WF_vars(SetShoot) /\ WF_vars(SetUnlock)
    /\ SF_vars(GetLock)
    /\ WF_vars(GetDx) /\ WF_vars(GetDy) /\ WF_vars(GetShoot) /\ WF_vars(GetUnlock)

\* The program with an event loop that runs every callback and coroutine that
\* is ready (asyncio runs them in turn), a lock that is handed to a waiting
\* thread, and requests that each end, with a decision or without.
LiveSpec ==
    /\ FairSpec
    /\ WF_vars(SetLock)
    /\ WF_vars(Poll)
    /\ WF_vars(Fire(MaxTicks))
    /\ WF_vars(PipelineWake)
    /\ WF_vars(PipelineGather)
    /\ \A i \in TaskIds : WF_vars(TaskFails(i) \/ \E d \in Decisions : TaskDecides(i, d))

\* ------------------------------------------------------------------------
\* Properties
\* ------------------------------------------------------------------------
\* get_ai_decision has returned the tuple r and the loop has not used it yet.
Returned == gpc = "feed"

\* What process_reflex returns to its caller.
Velocity(res) == <<res.vx, res.vy, res.should_shoot>>

\* The threat test in the words of the specification: time of closest
\* approach in [-0.05 s, DANGER_TIME_WINDOW], miss distance < 2.5 x margin.
Qualifies(b, bt) ==
    LET ca == _closest_approach(b.x, b.y, b.vx, b.vy, bt.x, bt.y)
    IN  /\ ca[1] >= -50
        /\ ca[1] <= DANGER_TIME_WINDOW
        /\ 2 * ca[2] < 5 * COLLISION_MARGIN * DPX

Without(seq, i) == [j \in 1 .. Len(seq) - 1 |-> IF j < i THEN seq[j] ELSE seq[j + 1]]

\* The call of the tick made again on another list of projectiles.
SameCallWith(bullets) ==
    process_reflex(bot_reflex, bullets, map_walls, bot_speed, ARENA_W, ARENA_H, 17)

\* Distance from the bot to the nearest point of an obstacle.
WallDistance(bt, wall) ==
    Hypot(bt.x - Max(wall.x, Min(wall.x + wall.w, bt.x)),
          bt.y - Max(wall.y, Min(wall.y + wall.h, bt.y)))

\* At least WALL_BUFFER away from every arena edge and every obstacle.
FarFromSurfaces ==
    /\ bot_reflex.x >= WALL_BUFFER * DPX
    /\ bot_reflex.x <= (ARENA_W - WALL_BUFFER) * DPX
    /\ bot_reflex.y >= WALL_BUFFER * DPX
    /\ bot_reflex.y <= (ARENA_H - WALL_BUFFER) * DPX
    /\ \A k \in 1 .. Len(map_walls) :
           WallDistance(bot_reflex, map_walls[k]) >= WALL_BUFFER * DPX

\* The direction of lines 263-266, before the hard clamp.
Unclamped ==
    Add(<<rv.pre_dx, rv.pre_dy>>,
        Scale(_wall_repulsion(bot_reflex.x, bot_reflex.y, map_walls, ARENA_W, ARENA_H),
              500))

\* ------------------------------------------------------------------------
\* C1 (as claimed; the code violates it).  Every tuple get_ai_decision
\* returns is the default or the record of one single write: its three
\* fields never come from two different writes.
C1_NoTornRead ==
    Returned => /\ r_src.dx = r_src.dy
                /\ r_src.dy = r_src.shoot

\* ------------------------------------------------------------------------
\* C2.  The producer holds the intent lock only while a task is inside the
\* three assignments of set_ai_decision (never at an await: a remote call or
\* the sleep); a read that took the lock before any write began returns the
\* default (0.0, 0.0, False); and every get_ai_decision the game loop calls
\* returns, whether or not any remote call ever ends.
C2_ReadNeverWaits ==
    /\ [](ai_lock = "producer" => w.pc \in {"dx", "dy", "shoot", "unlock"})
    /\ [](Returned /\ seen_fresh => r = Default)
    /\ ((gpc = "lock") ~> Returned)

\* A read has returned the default while a write waits for the lock the read
\* held and another request is still in flight.
C2_Witness ==
    /\ Returned
    /\ seen_fresh
    /\ r = Default
    /\ w.pc = "lock"
    /\ \E i \in TaskIds : tasks[i] = "pending"

\* ------------------------------------------------------------------------
\* C3 (as claimed; the code violates it).  A get_ai_decision that takes the
\* lock after a set_ai_decision has completed returns the record of the most
\* recently completed write.
C3_LastWriteVisible ==
    Returned /\ seen_done.id > 0 => r = seen_done.rec

\* ------------------------------------------------------------------------
\* C4 (as claimed; the code violates it).  Once the pipeline has shut down,
\* however it was stopped, the lock is not held by the producer and the slot
\* holds the last completely written intent (the default if there was none).
C4_StoppedSlotSound ==
    ppc = "done" => /\ ai_lock # "producer"
                    /\ Slot = last_done.rec

\* ------------------------------------------------------------------------
\* C5.  Hard perimeter clamp: within WALL_BUFFER of an arena edge the
\* returned velocity has no component pointing into that edge.
C5_HardClamp ==
    gpc = "done" =>
        /\ bot_reflex.x < WALL_BUFFER * DPX => rv.vx >= 0
        /\ bot_reflex.x > (ARENA_W - WALL_BUFFER) * DPX => rv.vx <= 0
        /\ bot_reflex.y < WALL_BUFFER * DPX => rv.vy >= 0
        /\ bot_reflex.y > (ARENA_H - WALL_BUFFER) * DPX => rv.vy <= 0

\* Half a buffer from the west edge, the blended direction with the soft
\* repulsion still pointed west, and the returned vx is zero.
C5_Witness ==
    /\ gpc = "done"
    /\ bot_reflex.x = 190
    /\ Unclamped[1] < 0
    /\ rv.vx = 0
    /\ rv.vy # 0

\* ------------------------------------------------------------------------
\* C6.  The fire flag process_reflex returns equals bot.shoot_intent.
C6_FirePassThrough ==
    gpc = "done" => rv.should_shoot = bot_reflex.shoot_intent

\* Fire intent set, a dodge in progress, and the returned flag is set.
C6_Witness ==
    /\ gpc = "done"
    /\ bot_reflex.shoot_intent
    /\ rv.threat_count > 0
    /\ rv.should_shoot

C8_NoThreatKeepsIntent ==
    (/\ gpc = "done"
     /\ \A k \in 1 .. Len(player_bullet_infos) :
            ~Qualifies(player_bullet_infos[k], bot_reflex))
    => /\ rv.pre_dx = bot_reflex.intent_dx
       /\ rv.pre_dy = bot_reflex.intent_dy
       /\ FarFromSurfaces =>
              /\ rv.vx = _normalize(bot_reflex.intent_dx, bot_reflex.intent_dy)[1]
                             * bot_speed
              /\ rv.vy = _normalize(bot_reflex.intent_dx, bot_reflex.intent_dy)[2]
                             * bot_speed
              /\ (bot_reflex.intent_dx = 0 /\ bot_reflex.intent_dy = 0
                    => rv.vx = 0 /\ rv.vy = 0)

\* Projectiles in flight, none of them a threat, the bot in the open with
\* intent (0.6, -0.8): the velocity is (0.6, -0.8) x 230.
C8_Witness ==
    /\ gpc = "done"
    /\ Len(player_bullet_infos) > 0
    /\ \A k \in 1 .. Len(player_bullet_infos) :
           ~Qualifies(player_bullet_infos[k], bot_reflex)
    /\ FarFromSurfaces
    /\ bot_reflex.intent_dx = 600
    /\ rv.vx = 600 * 230
    /\ rv.vy = -800 * 230

C10_Scenario ==
    /\ gpc = "done"
    /\ bot_reflex.x = 4000
    /\ bot_reflex.y = 3000
    /\ bot_speed = 230
    /\ map_walls = <<>>
    /\ player_bullet_infos = <<BulletFar>>

\* a moves more across (x) relative to along (y) than b does.
MoreLateral(a, b) ==
    \/ Abs(a.dir_x) * Abs(b.dir_y) > Abs(b.dir_x) * Abs(a.dir_y)
    \/ b.dir_x = 0 /\ b.dir_y = 0 /\ a.dir_x # 0

\* C10 (as claimed; it does not hold).  In the scenario the returned velocity
\* has a larger lateral component relative to vy than the same call with no
\* projectile, and the fire flag is the supplied fire intent.
C10_ScenarioDodges ==
    C10_Scenario => /\ MoreLateral(rv, SameCallWith(<<>>))
                    /\ rv.should_shoot = bot_reflex.shoot_intent

\* C10 (amended).  In the scenario the projectile is 1.333 s from its closest
\* approach, past DANGER_TIME_WINDOW: it is no threat, the call returns the
\* velocity of the same call with no projectile, and the fire flag is the
\* supplied fire intent.
C10_ScenarioNoThreat ==
    C10_Scenario => /\ rv.threat_count = 0
                    /\ Velocity(rv) = Velocity(SameCallWith(<<>>))
                    /\ rv.should_shoot = bot_reflex.shoot_intent

\* The scenario with intent (0.6, -0.8) and fire intent set.
C10_Witness ==
    /\ C10_Scenario
    /\ bot_reflex.intent_dx = 600
    /\ bot_reflex.shoot_intent
    /\ rv.should_shoot
    /\ rv.vx = 600 * 230

\* The share of projectile b alone in the dodge accumulators of the tick.
ShareOf(b) == ThreatStep(NoThreat, b, bot_reflex, map_walls, ARENA_W, ARENA_H)

\* ------------------------------------------------------------------------
\* C11.  Every threat with non-zero velocity adds to the dodge a vector
\* perpendicular to its velocity whose magnitude is its urgency, which is
\* positive (to the resolution of the fixed point: half a unit per
\* component, one part in a thousand of the magnitude).
C11_PerpendicularShare ==
    gpc = "done" =>
        \A k \in 1 .. Len(player_bullet_infos) :
            LET b == player_bullet_infos[k]
                c == ShareOf(b)
            IN  Qualifies(b, bot_reflex) /\ (b.vx # 0 \/ b.vy # 0) =>
                    /\ c.max_urgency > 0
                    /\ c.threat_count = 1
                    /\ 2 * Abs(c.dodge_x * b.vx + c.dodge_y * b.vy)
                           <= (c.max_urgency \div ONE + 2) * (Abs(b.vx) + Abs(b.vy))
                    /\ Abs(Hypot(c.dodge_x, c.dodge_y) - c.max_urgency) * ONE
                           <= c.max_urgency + ONE

\* A projectile aimed exactly at the bot, 0.1 s away: the dodge is 35.0
\* across its course, and a projectile on a diagonal course was dodged too.
C11_Witness ==
    /\ gpc = "done"
    /\ player_bullet_infos = <<BulletAimed, BulletDiag>>
    /\ map_walls = <<>>
    /\ bot_reflex.x = 4000
    /\ ShareOf(BulletAimed).dodge_x = 35 * ONE
    /\ ShareOf(BulletAimed).dodge_y = 0
    /\ ShareOf(BulletDiag).dodge_y > 0
    /\ rv.threat_count = 2

\* Half the derivative of the squared distance between the projectile, at
\* relative position (rx, ry) deci-px with velocity (vx, vy) px/s, and the
\* target, t ms from now (in units of 0.01 px^2 per ms).
Slope(rx, ry, vx, vy, t) ==
    ((ONE \div DPX) * rx + vx * t) * vx + ((ONE \div DPX) * ry + vy * t) * vy

\* The distance from the target to the straight line of the projectile.
LineDistance(rx, ry, vx, vy) == RDiv(Abs(rx * vy - ry * vx), Hypot(vx, vy))

\* _closest_approach on projectile b and the bot of the tick.
ApproachOf(b) == _closest_approach(b.x, b.y, b.vx, b.vy, bot_reflex.x, bot_reflex.y)

\* ------------------------------------------------------------------------
\* C12.  For a moving projectile the tca of _closest_approach is where the
\* squared distance to the bot has its only minimum: its derivative, which
\* grows by |v|^2 with every ms, is zero there (tca is the nearest ms), and
\* the miss distance is the distance from the bot to the projectile's line
\* (to the 0.5 ms of tca and 0.1 px).  For a projectile at rest the result
\* is tca = 0 and the distance between the two positions.
C12_ClosestApproach ==
    gpc = "done" =>
        \A k \in 1 .. Len(player_bullet_infos) :
            LET b == player_bullet_infos[k]
                rx == b.x - bot_reflex.x
                ry == b.y - bot_reflex.y
                v2 == b.vx * b.vx + b.vy * b.vy
                ca == ApproachOf(b)
            IN  IF v2 = 0
                THEN ca = <<0, Hypot(rx, ry)>>
                ELSE /\ 2 * Abs(Slope(rx, ry, b.vx, b.vy, ca[1])) <= v2
                     /\ Slope(rx, ry, b.vx, b.vy, ca[1] + 1) > 0
                     /\ Slope(rx, ry, b.vx, b.vy, ca[1] - 1) < 0
                     /\ Abs(ca[2] - LineDistance(rx, ry, b.vx, b.vy))
                            <= Hypot(b.vx, b.vy) \div 200 + 2

\* A projectile on a diagonal course 0.1 s before it passes the bot at
\* 10 px, and one at rest 10 px away.
C12_Witness ==
    /\ gpc = "done"
    /\ player_bullet_infos = <<BulletSkew, BulletStill>>
    /\ bot_reflex.x = 4000
    /\ ApproachOf(BulletSkew) = <<100, 100>>
    /\ ApproachOf(BulletStill) = <<0, 100>>
    /\ rv.threat_count = 2

\* The vector from the bot to the point where projectile b is nearest to it.
NearestPoint(b) ==
    <<b.x + RDiv(b.vx * ApproachOf(b)[1], ONE \div DPX) - bot_reflex.x,
      b.y + RDiv(b.vy * ApproachOf(b)[1], ONE \div DPX) - bot_reflex.y>>

\* No obstacle, and no arena edge within WALL_BUFFER of the probe point 30 px
\* from the bot: no perpendicular is flipped.
NoFlip ==
    /\ map_walls = <<>>
    /\ bot_reflex.x >= (WALL_BUFFER + 30) * DPX
    /\ bot_reflex.x <= (ARENA_W - WALL_BUFFER - 30) * DPX
    /\ bot_reflex.y >= (WALL_BUFFER + 30) * DPX
    /\ bot_reflex.y <= (ARENA_H - WALL_BUFFER - 30) * DPX

\* Exactly two projectiles, both moving, both threats, of equal urgency, whose
\* nearest points lie on opposite sides of the bot.
OppositePair ==
    /\ gpc = "done"
    /\ NoFlip
    /\ Len(player_bullet_infos) = 2
    /\ \A k \in 1 .. 2 :
           /\ Qualifies(player_bullet_infos[k], bot_reflex)
           /\ player_bullet_infos[k].vx # 0 \/ player_bullet_infos[k].vy # 0
    /\ ShareOf(player_bullet_infos[1]).max_urgency
           = ShareOf(player_bullet_infos[2]).max_urgency
    /\ NearestPoint(player_bullet_infos[1])[1] * NearestPoint(player_bullet_infos[2])[1]
           + NearestPoint(player_bullet_infos[1])[2] * NearestPoint(player_bullet_infos[2])[2]
           < 0

\* The two courses of the pair are parallel.
ParallelPair ==
    player_bullet_infos[1].vx * player_bullet_infos[2].vy
        = player_bullet_infos[1].vy * player_bullet_infos[2].vx

\* ------------------------------------------------------------------------
\* C13 (as claimed).  Two simultaneous threats of equal urgency that pass on
\* opposite sides of the bot never cancel: the accumulated dodge is not (0, 0).
C13_NeverCancels ==
    OppositePair => rv.dodge_x # 0 \/ rv.dodge_y # 0

\* C13 (amended).  Two simultaneous threats of equal urgency that pass on
\* opposite sides of the bot cancel to an accumulated dodge of exactly (0, 0)
\* when their courses are parallel, the symmetric case, and only then: on
\* courses that are not parallel the accumulated dodge is at least a tenth of
\* the urgency of one threat.
C13_CancelOnlyParallel ==
    OppositePair =>
        IF ParallelPair
        THEN rv.dodge_x = 0 /\ rv.dodge_y = 0 /\ rv.threat_count = 2
        ELSE 10 * Hypot(rv.dodge_x, rv.dodge_y) >= rv.max_urgency

\* Both cases happen: a pair not parallel that keeps a dodge is the state of
\* the witness; the mirrored pair is the state that refutes C13_NeverCancels.
C13_Witness ==
    /\ OppositePair
    /\ player_bullet_infos = <<BulletLeft, BulletSkew>>
    /\ ~ParallelPair
    /\ rv.dodge_x > 0
    /\ rv.dodge_y > 0
    /\ rv.threat_count = 2

\* The final combined direction of lines 263-276, before line 279 normalizes it.
FinalDirection == HardClamp(Unclamped, bot_reflex, ARENA_W, ARENA_H)

\* The inputs of the tick are degenerate: no projectile or no obstacle, zero
\* intent, a projectile at rest, or the bot on an arena edge or on the
\* boundary of an obstacle.
Degenerate ==
    \/ player_bullet_infos = <<>>
    \/ map_walls = <<>>
    \/ bot_reflex.intent_dx = 0 /\ bot_reflex.intent_dy = 0
    \/ \E k \in 1 .. Len(player_bullet_infos) :
           player_bullet_infos[k].vx = 0 /\ player_bullet_infos[k].vy = 0
    \/ bot_reflex.x = 0
    \/ \E k \in 1 .. Len(map_walls) : WallDistance(bot_reflex, map_walls[k]) = 0

\* ------------------------------------------------------------------------
\* C14.  On every input, the degenerate ones included (empty lists, zero
\* intent, projectiles at rest, the bot on an arena edge or on an obstacle's
\* boundary, shares that sum to zero), process_reflex returns a triple of two
\* finite velocity components within the top speed and a boolean; a final
\* direction below epsilon gives the velocity (0, 0) exactly, and any other
\* gives a velocity of the top speed (to 0.3 %, the rounding of the unit
\* vector).
C14_DefinedOnDegenerate ==
    gpc = "done" =>
        /\ rv.vx \in Int /\ rv.vy \in Int /\ rv.should_shoot \in BOOLEAN
        /\ Abs(rv.vx) <= bot_speed * ONE
        /\ Abs(rv.vy) <= bot_speed * ONE
        /\ IF Hypot(FinalDirection[1], FinalDirection[2]) = 0
           THEN rv.vx = 0 /\ rv.vy = 0
           ELSE Abs(Hypot(rv.vx, rv.vy) - bot_speed * ONE) <= 3 * bot_speed

\* Two threats whose shares sum to zero, with zero intent and no obstacle:
\* the final direction is zero and the bot is told to stand still.
C14_Witness ==
    /\ gpc = "done"
    /\ Degenerate
    /\ player_bullet_infos = <<BulletLeft, BulletRight>>
    /\ bot_reflex.intent_dx = 0 /\ bot_reflex.intent_dy = 0
    /\ rv.threat_count = 2
    /\ rv.dodge_x = 0 /\ rv.dodge_y = 0
    /\ FinalDirection = <<0, 0>>
    /\ rv.vx = 0 /\ rv.vy = 0

\* The least element of a non-empty set of integers.
Least(S) == CHOOSE m \in S : \A n \in S : m <= n

\* The obstacles of the map as a set.
Obstacles == {map_walls[k] : k \in 1 .. Len(map_walls)}

\* The bot's x (y) lies within the extent of obstacle o, bounds included.
SpansX(o) == o.x <= bot_reflex.x /\ bot_reflex.x <= o.x + o.w
SpansY(o) == o.y <= bot_reflex.y /\ bot_reflex.y <= o.y + o.h

\* Distances to the arena edge and to the facing edges of the obstacles on
\* each side of the bot that span its coordinate.
NorthGaps ==
    {bot_reflex.y}
        \cup {bot_reflex.y - (o.y + o.h) : o \in {q \in Obstacles : SpansX(q) /\ q.y + q.h <= bot_reflex.y}}
EastGaps ==
    {ARENA_W * DPX - bot_reflex.x}
        \cup {o.x - bot_reflex.x : o \in {q \in Obstacles : SpansY(q) /\ q.x >= bot_reflex.x}}
SouthGaps ==
    {ARENA_H * DPX - bot_reflex.y}
        \cup {o.y - bot_reflex.y : o \in {q \in Obstacles : SpansX(q) /\ q.y >= bot_reflex.y}}
WestGaps ==
    {bot_reflex.x}
        \cup {bot_reflex.x - (o.x + o.w) : o \in {q \in Obstacles : SpansY(q) /\ q.x + q.w <= bot_reflex.x}}

\* The obstacles that span the bot's x or y.
Spanning(o) == SpansX(o) \/ SpansY(o)

\* ------------------------------------------------------------------------
\* C15.  compute_wall_distances gives [north, east, south, west], each the
\* least of the distance to the arena edge on that side and the distances to
\* the facing edges of the obstacles on that side whose extent on the other
\* axis contains the bot's coordinate, bounds included; obstacles that do
\* not span the bot's coordinate change nothing, and no entry is negative.
C15_WallDistances ==
    wall_dists # <<>> =>
        /\ wall_dists = <<Least(NorthGaps), Least(EastGaps), Least(SouthGaps), Least(WestGaps)>>
        /\ wall_dists = compute_wall_distances(bot_reflex, SelectSeq(map_walls, Spanning),
                                               ARENA_W, ARENA_H)
        /\ \A k \in 1 .. 4 : wall_dists[k] >= 0

\* The bot at x = 380, the west end of the extent of the obstacle to its
\* north: the obstacle counts, 50 px away, and the nearer one that ends at
\* x = 390 does not.
C15_Witness ==
    /\ wall_dists # <<>>
    /\ bot_reflex.x = 3800 /\ bot_reflex.y = 3000
    /\ map_walls = <<WallNorth, WallNear>>
    /\ wall_dists = <<500, 4200, 3000, 3800>>

\* The distances _wall_repulsion measures (lines 134-151): to the four arena
\* edges, and to the nearest point of every obstacle.
RepulsionGaps ==
    {bot_reflex.x, ARENA_W * DPX - bot_reflex.x, bot_reflex.y, ARENA_H * DPX - bot_reflex.y}
        \cup {WallDistance(bot_reflex, o) : o \in Obstacles}

\* ------------------------------------------------------------------------
\* C16 (as claimed; the code violates it).  The wall repulsion of
\* process_reflex and the telemetry measure the same distances: the nearest
\* surface is as far for the one as for the other, so a bot that the
\* telemetry puts at WALL_BUFFER or more from every surface feels no push.
C16_SameDistances ==
    wall_dists # <<>> =>
        /\ Least(RepulsionGaps) = Least({wall_dists[k] : k \in 1 .. 4})
        /\ (\A k \in 1 .. 4 : wall_dists[k] >= WALL_BUFFER * DPX) =>
               _wall_repulsion(bot_reflex.x, bot_reflex.y, map_walls, ARENA_W, ARENA_H)
                   = <<0, 0>>

Pending == {i \in DOMAIN tasks : tasks[i] = "pending"}

\* ------------------------------------------------------------------------
\* C18.  Once the pipeline's stop event is set, run_pipeline creates no
\* further request; it returns only when no request is pending, and, every
\* pending request ending at some time, it does return; and once the game
\* has set the threading stop event, the pipeline's stop event gets set.
C18_CleanShutdown ==
    /\ [][async_stop => tick' = tick /\ Pending' \subseteq Pending]_vars
    /\ [](ppc = "done" => Pending = {} /\ w = Idle)
    /\ [][ppc = "done" => ppc' = "done"]_vars
    /\ (async_stop ~> ppc = "done")
    /\ (stop_event ~> async_stop)

\* The pipeline has returned after a stop that found requests created, one of
\* which wrote its decision.
C18_Witness ==
    /\ ppc = "done"
    /\ stop_event
    /\ async_stop
    /\ tick = MaxTicks
    /\ nwrites >= 1
    /\ \A i \in TaskIds : tasks[i] = "done"

\* The intent weight of the tick, in thousandths.
BlendOfTick == BlendWeight(rv.max_urgency)

\* Urgencies from 0 to twice DODGE_BASE_STRENGTH, and that of the tick.
UrgencySamples == {k * (DODGE_BASE_STRENGTH \div 10) : k \in 0 .. 20} \cup {rv.max_urgency}

PerpA(b) == <<_normalize(b.vx, b.vy)[2], -_normalize(b.vx, b.vy)[1]>>

\* The vector from projectile b at its closest approach to the bot.
FromNearest(b) == Neg(NearestPoint(b))

\* The projectiles of the tick that are threats and move.
MovingThreats ==
    {k \in 1 .. Len(player_bullet_infos) :
        /\ Qualifies(player_bullet_infos[k], bot_reflex)
        /\ player_bullet_infos[k].vx # 0 \/ player_bullet_infos[k].vy # 0}

\* ------------------------------------------------------------------------
\* C20 (as claimed; the code violates it).  Before any wall flip the
\* perpendicular chosen for a threat is p_a = (t.y, -t.x) exactly when the
\* vector from the projectile at its closest approach to the bot has a
\* non-negative projection on p_a, and p_b otherwise: evaluating the
\* projectile at max(tca, 0), as the code does, gives the choice of the true
\* tca for every threat, those just past the bot included.
C20_SideOfClosestApproach ==
    gpc = "done" =>
        \A k \in MovingThreats :
            LET b == player_bullet_infos[k]
            IN  ChosenPerp(b, bot_reflex, ApproachOf(b)[1])
                    = IF PerpA(b)[1] * FromNearest(b)[1] + PerpA(b)[2] * FromNearest(b)[2] >= 0
                      THEN PerpA(b)
                      ELSE Neg(PerpA(b))

\* The escape direction finally used for projectile b (lines 203-233).
EscapeOf(b) ==
    ProbeFlip(ChosenPerp(b, bot_reflex, ApproachOf(b)[1]), bot_reflex, map_walls,
              ARENA_W, ARENA_H)

\* The wall repulsion at the point 30 px from the bot along direction d.
ProbeAlong(d) ==
    _wall_repulsion(bot_reflex.x + RDiv(d[1] * 30 * DPX, ONE),
                    bot_reflex.y + RDiv(d[2] * 30 * DPX, ONE),
                    map_walls, ARENA_W, ARENA_H)

\* ------------------------------------------------------------------------
\* C21 (as claimed; the code violates it).  The escape direction finally
\* used for a threat does not lead into a wall: the wall repulsion at the
\* point 30 px along it has a dot product with it that is not below -0.5.
C21_EscapeNotIntoWall ==
    gpc = "done" =>
        \A k \in MovingThreats :
            2 * (ProbeAlong(EscapeOf(player_bullet_infos[k]))[1] * EscapeOf(player_bullet_infos[k])[1]
                 + ProbeAlong(EscapeOf(player_bullet_infos[k]))[2] * EscapeOf(player_bullet_infos[k])[2])
                >= -(ONE * ONE)

\* The wall repulsion field at the bot's position.
FieldAtBot == _wall_repulsion(bot_reflex.x, bot_reflex.y, map_walls, ARENA_W, ARENA_H)

\* The strength the claim gives a surface at distance d (deci-px), in thousandths.
ClaimedStrength(d) ==
    IF d < WALL_BUFFER * DPX
    THEN RDiv((WALL_BUFFER * DPX - d) * WALL_REPULSE_STRENGTH, WALL_BUFFER * DPX)
    ELSE 0

\* The pushes of the four arena edges, each away from its edge.
ClaimedEdges ==
    <<ClaimedStrength(bot_reflex.x) - ClaimedStrength(ARENA_W * DPX - bot_reflex.x),
      ClaimedStrength(bot_reflex.y) - ClaimedStrength(ARENA_H * DPX - bot_reflex.y)>>

\* The vector from the nearest point of obstacle o to the bot.
AwayFrom(o) ==
    <<bot_reflex.x - Max(o.x, Min(o.x + o.w, bot_reflex.x)),
      bot_reflex.y - Max(o.y, Min(o.y + o.h, bot_reflex.y))>>

\* The push of obstacle o, for a bot that does not touch it.
ClaimedObstacle(o) ==
    IF WallDistance(bot_reflex, o) = 0 THEN <<0, 0>>
    ELSE <<RDiv(AwayFrom(o)[1] * ClaimedStrength(WallDistance(bot_reflex, o)),
                WallDistance(bot_reflex, o)),
           RDiv(AwayFrom(o)[2] * ClaimedStrength(WallDistance(bot_reflex, o)),
                WallDistance(bot_reflex, o))>>

RECURSIVE ClaimedObstacles(_)
ClaimedObstacles(k) ==
    IF k = 0 THEN <<0, 0>>
    ELSE Add(ClaimedObstacles(k - 1), ClaimedObstacle(map_walls[k]))

\* What is left of the field once the pushes of the edges and of the
\* obstacles the bot does not touch are taken off.
Residue == Add(FieldAtBot, Neg(Add(ClaimedEdges, ClaimedObstacles(Len(map_walls)))))

\* The bot touches an obstacle, or is inside one.
Touching == \E k \in 1 .. Len(map_walls) : WallDistance(bot_reflex, map_walls[k]) = 0

\* ------------------------------------------------------------------------
\* C22 (as claimed; the code violates it).  Every arena edge and every
\* obstacle nearer than WALL_BUFFER pushes the bot away with strength
\* (1 - dist / WALL_BUFFER) x WALL_REPULSE_STRENGTH, which grows steadily
\* as dist falls to 0, where it is WALL_REPULSE_STRENGTH; a surface at
\* WALL_BUFFER or more adds nothing, and the field is (0, 0) at WALL_BUFFER
\* or more from every surface.
C22_RepulsionLaw ==
    gpc = "done" =>
        /\ FarFromSurfaces => FieldAtBot = <<0, 0>>
        /\ ~Touching => Abs(Residue[1]) <= 2 /\ Abs(Residue[2]) <= 2
        /\ Touching => Residue # <<0, 0>>
        /\ \A d \in 0 .. WALL_BUFFER * DPX - 1 :
               /\ ClaimedStrength(d) > ClaimedStrength(d + 1)
               /\ ClaimedStrength(d) - ClaimedStrength(d + 1) <= WALL_REPULSE_STRENGTH \div 100

\* ------------------------------------------------------------------------
\* C23 (as claimed; the code violates it).  At every moment at most
\* num_instances requests launched by run_pipeline have not yet completed.
C23_BoundedPool == Cardinality(Pending) <= num_instances

\* ------------------------------------------------------------------------
\* C24 (as claimed; the code violates it).  Only the freshest decision is
\* kept: a decision that is written to the slot comes from a request
\* launched at a later tick than the decision written before it.
C24_FreshestKept ==
    [][last_done' # last_done => last_done'.task > last_done.task]_vars

\* ------------------------------------------------------------------------
\* A request ends without a decision: its task goes from pending to done
\* while no call of on_ai_decision is in progress.
FailureOf(i) ==
    /\ w.pc = "idle"
    /\ tasks[i] = "pending"
    /\ tasks'[i] = "done"

\* C25.  A request whose remote call fails or whose reply has no parsable
\* decision never calls on_ai_decision: the step leaves the slot, the count
\* of on_ai_decision calls and the writer untouched, it leaves the loop of
\* run_pipeline where it was, and the loop, when it is at its top and the
\* event loop is free, can always make its next pass.
C25_FailureIsSilent ==
    /\ [][\A i \in TaskIds :
              FailureOf(i) =>
                  /\ UNCHANGED <<ai_dx, ai_dy, ai_shoot, ai_src, nwrites, last_done, w>>
                  /\ UNCHANGED <<ppc, tick, async_stop, stop_event>>
                  /\ \A j \in TaskIds \ {i} : tasks'[j] = tasks[j]]_vars
    /\ [](LoopFree /\ ppc = "loop" /\ tick < MaxTicks => ENABLED Fire(MaxTicks))

\* The request of tick 0 has ended without a decision, the slot still holds
\* the default, and the request of tick 1 has been launched.
C25_Witness ==
    /\ tasks[0] = "done"
    /\ nwrites = 0
    /\ Slot = Default
    /\ tasks[1] = "pending"
    /\ tick = 2

\* ------------------------------------------------------------------------
\* C26 (as claimed; the code violates it).  set_ai_decision is all or
\* nothing: whenever no write is in progress the slot holds the record of the
\* last completed write (the default if there was none), its three fields
\* coming from that one write.
C26_AllOrNothing ==
    w.pc = "idle" =>
        /\ Slot = last_done.rec
        /\ ai_src.dx = last_done.id
        /\ ai_src.dy = last_done.id
        /\ ai_src.shoot = last_done.id

\* ------------------------------------------------------------------------
\* Other values for what the claim says is not read: own velocity (px/s),
\* hp, the velocity of the last frame, and dt (ms).  The call made has
\* velocity 0, hp 100, frame velocity 0 and dt 17.
OtherCalls ==
    {[vx |-> 0, vy |-> 0, hp |-> 100, frame_vx |-> 0, frame_vy |-> 0, dt |-> 0],
     [vx |-> 0, vy |-> 0, hp |-> 100, frame_vx |-> 0, frame_vy |-> 0, dt |-> 33],
     [vx |-> 230, vy |-> 0, hp |-> 100, frame_vx |-> 0, frame_vy |-> 0, dt |-> 17],
     [vx |-> 0, vy |-> 0, hp |-> 1, frame_vx |-> 0, frame_vy |-> 0, dt |-> 17],
     [vx |-> 0, vy |-> 0, hp |-> 100, frame_vx |-> 0, frame_vy |-> -230, dt |-> 17],
     [vx |-> -163, vy |-> 163, hp |-> 40, frame_vx |-> 163, frame_vy |-> 163, dt |-> 33]}

\* The agent of this call with the fields of o in the fields not read.
OtherSelf(o) ==
    [bot_reflex EXCEPT !.vx = o.vx, !.vy = o.vy, !.hp = o.hp,
                       !.frame_vx = o.frame_vx, !.frame_vy = o.frame_vy]

\* C27.  The output of process_reflex depends only on the agent's position,
\* intent and fire intent, the projectiles, the obstacles, the top speed and
\* the arena: a call that differs only in dt, in the agent's own velocity,
\* in hp or in frame_vx/frame_vy returns the same result.
C27_OnlyPositionAndIntent ==
    gpc = "done" =>
        \A o \in OtherCalls :
            process_reflex(OtherSelf(o), player_bullet_infos, map_walls,
                           bot_speed, ARENA_W, ARENA_H, o.dt) = rv

\* A call that dodged a threat and returned a velocity.
C27_Witness ==
    /\ gpc = "done"
    /\ rv.threat_count > 0
    /\ rv.vx # 0
    /\ bot_reflex.intent_dx # 0

\* ------------------------------------------------------------------------
\* The projectiles of the tick that are at rest.
AtRest == {k \in DOMAIN player_bullet_infos :
              player_bullet_infos[k].vx = 0 /\ player_bullet_infos[k].vy = 0}

\* C28 (as claimed; the code violates it).  A projectile with zero velocity
\* never changes the agent's motion: the call returns the velocity of the
\* same call without that projectile.
C28_RestingBulletIgnored ==
    gpc = "done" =>
        \A k \in AtRest :
            Velocity(rv) = Velocity(SameCallWith(Without(player_bullet_infos, k)))

\* ------------------------------------------------------------------------
\* The observations of the session (game.py GameState 331-341, reset 975-991)
\* ------------------------------------------------------------------------
\* The cap of add_observation (game.py 336-337).
ObservationCap == 200

MaxObservations == 203

\* seq[-n:]
LastOf(seq, n) ==
    IF Len(seq) <= n THEN seq ELSE SubSeq(seq, Len(seq) - n + 1, Len(seq))

\* add_observation(text), 333-337: append in place, then rebind
\* self.observations to a new list of the last 200 when it is longer.  A list
\* that is the same object sees the append, and is left behind by the rebind.
AddObservation ==
    /\ gpc = "tick"
    /\ nobs < MaxObservations
    /\ nobs' = nobs + 1
    /\ observations' = LastOf(Append(observations, nobs + 1), ObservationCap)
    /\ obs_ret' = IF obs_ret.same
                  THEN [obs_ret EXCEPT !.list = Append(observations, nobs + 1),
                                       !.same = Len(observations) < ObservationCap]
                  ELSE obs_ret
    /\ UNCHANGED <<reflexVars, slotVars, gpc, readVars, pipeVars, memVars>>

\* get_observations returning self.observations itself instead of a new list.
GetObservations_no_copy ==
    /\ gpc = "tick"
    /\ obs_ret' = [set |-> TRUE, same |-> TRUE, list |-> observations,
                   held |-> observations]
    /\ UNCHANGED <<observations, nobs>>
    /\ UNCHANGED <<reflexVars, slotVars, gpc, readVars, pipeVars, memVars>>

\* get_observations, 339-341: list(self.observations), a new list.
GetObservations ==
    /\ gpc = "tick"
    /\ obs_ret' = [set |-> TRUE, same |-> FALSE, list |-> observations,
                   held |-> observations]
    /\ UNCHANGED <<observations, nobs>>
    /\ UNCHANGED <<reflexVars, slotVars, gpc, readVars, pipeVars, memVars>>

\* reset() with no map change, 975-991: the bot back at its spawn, no
\* projectile, and self.observations rebound to a new empty list.
Reset ==
    /\ gpc = "tick"
    /\ bot_reflex' = BotState(6500, 3000, 0, 0, FALSE)
    /\ player_bullet_infos' = <<>>
    /\ observations' = <<>>
    /\ nobs' = 0
    /\ obs_ret' = [obs_ret EXCEPT !.same = FALSE]
    /\ UNCHANGED <<map_walls, bot_speed, rv, memo, wall_dists>>
    /\ UNCHANGED <<slotVars, gpc, readVars, pipeVars, memVars>>

ObsNext == AddObservation \/ GetObservations \/ Reset

ObsSpec == Init /\ [][ObsNext]_vars

\* The texts 1 .. n in the order they were added.
Texts(n) == [i \in 1 .. n |-> i]

\* C29.  After any add_observation, get_observations and reset calls the
\* observation list holds at most 200 entries, the most recently added ones
\* in insertion order, and the list get_observations returned still holds
\* what it held when it was returned.
C29_LastObservations ==
    /\ Len(observations) <= ObservationCap
    /\ observations = LastOf(Texts(nobs), ObservationCap)
    /\ obs_ret.set => obs_ret.list = obs_ret.held

\* More than 200 observations were added, and more were added after a list
\* of 200 was returned.
C29_Witness ==
    /\ nobs > ObservationCap + 1
    /\ obs_ret.set
    /\ Len(obs_ret.list) = ObservationCap
    /\ obs_ret.list # observations

\* ------------------------------------------------------------------------
\* The memory file (memory.py)
\* ------------------------------------------------------------------------
MAX_SESSIONS_KEPT == 8

MaxSaves == 10

\* The text of the file is a sequence of tokens: the separator line of 60
\* box characters, or the two lines of a session (time stamp and result,
\* summary).  The n-th entry appended carries the number n as its time stamp.
Separator == [kind |-> "separator", n |-> 0, result |-> ""]

SessionText(n, result) == [kind |-> "session", n |-> n, result |-> result]

RECURSIVE SplitFrom(_, _, _)
\* text.split(separator) from position i on, piece being the text read since
\* the last separator.
SplitFrom(text, i, piece) ==
    IF i > Len(text) THEN <<piece>>
    ELSE IF text[i] = Separator
         THEN <<piece>> \o SplitFrom(text, i + 1, <<>>)
         ELSE SplitFrom(text, i + 1, Append(piece, text[i]))

\* [s.strip() for s in sessions if s.strip()]
Stripped(pieces) == SelectSeq(pieces, LAMBDA piece : piece # <<>>)

\* The sessions of a text, lines 83-85.
SessionsOf(text) == Stripped(SplitFrom(text, 1, <<>>))

RECURSIVE JoinFrom(_, _)
\* ("\n" + separator + "\n").join(sessions) + "\n"
JoinFrom(sessions, i) ==
    IF i > Len(sessions) THEN <<>>
    ELSE IF i = Len(sessions) THEN sessions[i]
         ELSE sessions[i] \o <<Separator>> \o JoinFrom(sessions, i + 1)

\* _trim_memory_file keeping the first MAX_SESSIONS_KEPT sessions instead of
\* the last.
_trim_memory_file_oldest(text) ==
    IF Len(SessionsOf(text)) > MAX_SESSIONS_KEPT
    THEN JoinFrom(SubSeq(SessionsOf(text), 1, MAX_SESSIONS_KEPT), 1)
    ELSE text

\* _trim_memory_file, 75-91: the text of the file after the call.
_trim_memory_file(text) ==
    IF Len(SessionsOf(text)) > MAX_SESSIONS_KEPT
    THEN JoinFrom(LastOf(SessionsOf(text), MAX_SESSIONS_KEPT), 1)
    ELSE text

\* The arguments the game loop hands to save_session (game.py 1141-1151).
SavedLists == {<<>>, <<1>>, <<1, 2>>}

Winners == {"bot", "player"}

\* save_session(observations, winner) is called (game.py 1141-1151).
SaveSession(obs, winner) ==
    /\ save.pc = "idle"
    /\ save' = [pc |-> "check", observations |-> obs, winner |-> winner,
                summary |-> FALSE]
    /\ UNCHANGED <<memory_file, nsaved>>
    /\ UNCHANGED <<reflexVars, slotVars, gpc, readVars, pipeVars, obsVars>>

\* 117-119: no observations, return.
SaveNoObservations ==
    /\ save.pc = "check"
    /\ save.observations = <<>>
    /\ save' = NoSave
    /\ UNCHANGED <<memory_file, nsaved>>
    /\ UNCHANGED <<reflexVars, slotVars, gpc, readVars, pipeVars, obsVars>>

\* 121-124: _summarise_async returns the stripped reply (summary TRUE), or ""
\* on an API error or an empty reply (summary FALSE).
Summarise(summary) ==
    /\ save.pc = "check"
    /\ save.observations # <<>>
    /\ save' = [save EXCEPT !.pc = "summary", !.summary = summary]
    /\ UNCHANGED <<memory_file, nsaved>>
    /\ UNCHANGED <<reflexVars, slotVars, gpc, readVars, pipeVars, obsVars>>

\* 125-127: no summary, return.
SaveNoSummary ==
    /\ save.pc = "summary"
    /\ ~save.summary
    /\ save' = NoSave
    /\ UNCHANGED <<memory_file, nsaved>>
    /\ UNCHANGED <<reflexVars, slotVars, gpc, readVars, pipeVars, obsVars>>

\* 129-139: the entry, a separator line and the session, is appended.
SaveAppend ==
    /\ save.pc = "summary"
    /\ save.summary
    /\ nsaved < MaxSaves
    /\ nsaved' = nsaved + 1
    /\ memory_file' = memory_file \o
           <<Separator,
             SessionText(nsaved + 1,
                         IF save.winner = "bot" THEN "AI won" ELSE "Human won")>>
    /\ save' = [save EXCEPT !.pc = "trim"]
    /\ UNCHANGED <<reflexVars, slotVars, gpc, readVars, pipeVars, obsVars>>

\* 140-141: _trim_memory_file(), return.
SaveTrim ==
    /\ save.pc = "trim"
    /\ memory_file' = _trim_memory_file(memory_file)
    /\ save' = NoSave
    /\ UNCHANGED nsaved
    /\ UNCHANGED <<reflexVars, slotVars, gpc, readVars, pipeVars, obsVars>>

MemoryNext ==
    \/ \E obs \in SavedLists : \E winner \in Winners : SaveSession(obs, winner)
    \/ SaveNoObservations
    \/ \E summary \in BOOLEAN : Summarise(summary)
    \/ SaveNoSummary
    \/ SaveAppend
    \/ SaveTrim

MemorySpec == Init /\ [][MemoryNext]_vars

\* The time stamps of the sessions a text holds, in the order of the text.
StampsOf(text) ==
    [k \in 1 .. Len(SessionsOf(text)) |-> SessionsOf(text)[k][1].n]

\* C30.  After any sequence of save_session calls the memory file holds at
\* most MAX_SESSIONS_KEPT session entries, the most recently saved ones in
\* chronological order; a call with no observations, or whose summary comes
\* back empty, leaves the file unchanged.
C30_LastSessions ==
    /\ [](save.pc = "idle" =>
              /\ Len(SessionsOf(memory_file)) <= MAX_SESSIONS_KEPT
              /\ \A k \in 1 .. Len(SessionsOf(memory_file)) :
                     Len(SessionsOf(memory_file)[k]) = 1
              /\ StampsOf(memory_file) = LastOf(Texts(nsaved), MAX_SESSIONS_KEPT))
    /\ [][save.pc \in {"check", "summary"} /\ save'.pc = "idle"
              => memory_file' = memory_file]_vars

\* Ten sessions were saved: the file holds the third to the tenth.
C30_Witness ==
    /\ save.pc = "idle"
    /\ nsaved = MAX_SESSIONS_KEPT + 2
    /\ Len(SessionsOf(memory_file)) = MAX_SESSIONS_KEPT
    /\ SessionsOf(memory_file)[1][1].n = 3

=============================================================================
